---- MODULE Spec2Model ----
(***************************************************************************)
(* A model of the execution, on-demand routing and log-writing code of     *)
(* dspy-cli:                                                               *)
(*   server/executor.py  the bounded pool and run_sync_in_executor         *)
(*   server/routes.py    create_program_routes / run_program               *)
(*   server/logging.py   log_inference and the background log writer       *)
(*   server/app.py       the lifespan and _deferred_init                   *)
(*   discovery/gateway_finder.py  get_gateways_for_module                  *)
(*   server/scheduler.py GatewayScheduler and its cron jobs                *)
(*   server/trace_builder.py  TraceBuilder                                 *)
(*   server/streaming.py StreamingCallback and event_stream_generator      *)
(*   discovery/module_finder.py  _extract_signature                        *)
(*   server/ui.py        get_recent_logs                                   *)
(*   examples/code-review-agent  RedisDedup and the webhook gateway        *)
(* Each subsystem has its own specification (SpecExec, SpecRoute, SpecLog, *)
(* SpecStartup, ...) over the one set of variables; the variables of the   *)
(* other subsystems keep their initial values.                             *)
(***************************************************************************)
EXTENDS Integers, Sequences, FiniteSets, TLC

VARIABLES
    \* ---- server/executor.py and the interpreter's contexts
    executor,      \* _executor: 0 is None, p > 0 the p-th pool created
    nPools,        \* pools created so far by init_executor
    poolsShut,     \* pools on which shutdown() was called
    tpc,           \* per caller task: where it is in its coroutine
    tctx,          \* per caller task: the context variable in the task's context
    tfn,           \* per caller task: the callable it dispatches
    tpool,         \* per caller task: the pool its call was submitted to
    threadCtx,     \* per pool thread: the context variable in the thread's own context
    threadTask,    \* per pool thread: the task whose call it is running, 0 if idle
    observed,      \* per caller task: what the callable read inside the worker
    result,        \* per caller task: what the await returned
    \* ---- server/routes.py
    loopOwner,     \* the request whose handler occupies the event-loop thread, 0 if none
    rpc,           \* per request: where its run_program handler is
    runit,         \* per request: the unit (program) of the route
    rinputs,       \* per request: whether the local `inputs` is bound
    rerr,          \* per request: the message of the exception caught, NoError if none
    rstage,        \* per request: the stage that raised, "none" if none
    rcalls,        \* per request: how many times the entry point was called
    rinst,         \* per request: the unit instance the entry point ran on
    rthread,       \* per request: the thread the entry point ran on
    rresp,         \* per request: the response sent
    \* ---- server/logging.py
    logQueue,      \* _log_queue
    enqueued,      \* every entry ever put by log_inference, in order (history)
    shutdownEvent, \* _shutdown_event
    writerThread,  \* _writer_thread: 0 is None, else a thread id
    nThreads,      \* writer threads created so far
    wpc,           \* per writer thread: where it is in _log_writer_loop
    wentries,      \* per writer thread: its local `entries`
    wcount,        \* per writer thread: iterations done of the batching loop
    wafter,        \* per writer thread: where it goes after the pending flush
    spc,           \* the caller of stop_log_writer: where it is
    files,         \* the log files: (logs_dir, program) -> the tokens written
    atSentinel,    \* per writer thread: the entries that were in the queue when
                   \* it read the sentinel (history)
    \* ---- server/app.py
    package,       \* what discover_modules finds in the package directory
    phase,         \* where the lifespan is
    modules,       \* the local `modules` of _deferred_init
    programLms,    \* app.state.program_lms: the unit names holding an LM
    lmInstances,   \* whom the LM instances created so far were made for (history)
    gwModule,      \* the gateway loop: index of the module being processed
    gwList,        \* the gateway loop: `gateways` of that module, NotFetched before
    gwIndex,       \* the gateway loop: index of the next gateway in gwList
    registeredPaths, \* registered_paths: route path -> gateway id, as pairs
    resolved,      \* the on-demand gateways whose route_path was computed (history)
    routes,        \* the paths of the routes create_program_routes added to the app
    ready,         \* app.state._ready
    startError,    \* the exception that left the lifespan startup, NoStartError if none
    \* ---- discovery/gateway_finder.py
    gfDeclared,    \* module.gateway_classes of the call
    gfResult,      \* what get_gateways_for_module returned or raised, NotCalled before
    \* ---- server/scheduler.py
    jobs,          \* GatewayScheduler._jobs: program name -> job id, as pairs
    addedJobs,     \* the ids of the add_job calls, in order
    schedRunning,  \* whether scheduler.start() was called and shutdown() not yet
    cronDue,       \* run times of the job that have passed and are not yet processed
    ticksWhen,     \* per run time passed: before, during or after the first run (history)
    nRuns,         \* calls of execute_job started so far
    jobRuns,       \* the runs of the job that are executing
    skipped,       \* firings of the trigger that started no run (history)
    dueAtFirstEnd, \* cronDue when the first run ended (history)
    \* ---- server/trace_builder.py
    tbSpans,       \* TraceBuilder.spans: call id -> span
    tbRoots,       \* TraceBuilder.root_call_ids
    tbEvents,      \* TraceBuilder.events
    tbRaised,      \* the exception that left add_event or build, "none" if none
    tbOpen,        \* the calls of the observed execution that are open, innermost last
    \* ---- server/streaming.py
    call_stack,        \* StreamingCallback.call_stack
    call_start_times,  \* StreamingCallback.call_start_times: call id -> time
    event_queue,       \* the queue shared by the sink and the stream generator
    collected_events,  \* StreamingCallback.collected_events
    sinkCalls,         \* the start type of each call the execution has made
    sinkOpen,          \* the calls of the execution that have not ended, in start order
    sinkNested,        \* whether every call so far ended as the innermost open one
    execution_task,    \* the task running the execution: running, returned, raised
    genPc,             \* where event_stream_generator is suspended, "none" if none exists
    sseOut,            \* the items the generator has yielded
    nKeepalives,       \* keepalive lines yielded
    clientGone,        \* whether the client has disconnected
    \* ---- discovery/module_finder.py
    sxClass,           \* the module class _extract_signature is called on
    sxResult,          \* what _extract_signature returned
    \* ---- server/ui.py
    uiFile,            \* the lines of the program's log file, None if it does not exist
    uiLimit,           \* the limit get_recent_logs is called with
    uiLogs,            \* what get_recent_logs returned
    \* ---- examples/code-review-agent: redis_dedup.py, github_webhook.py
    redisLocks,        \* the pull requests whose lock key the Redis server holds
    whPc,              \* per webhook: where its handling is
    whKey,             \* per webhook: the pr_key of its payload
    whResp             \* per webhook: the handler's response

execVars  == <<executor, nPools, poolsShut, tpc, tctx, tfn, tpool, threadCtx,
               threadTask, observed, result>>
routeVars == <<loopOwner, rpc, runit, rinputs, rerr, rstage, rcalls, rinst,
               rthread, rresp>>
queueVars == <<logQueue, enqueued>>
writerVars == <<shutdownEvent, writerThread, nThreads, wpc, wentries, wcount,
                wafter, spc, files, atSentinel>>
startupVars == <<package, phase, modules, programLms, lmInstances, gwModule,
                 gwList, gwIndex, registeredPaths, resolved, routes, ready,
                 startError>>
finderVars == <<gfDeclared, gfResult>>
jobVars == <<jobs, addedJobs, schedRunning>>
schedVars == <<cronDue, ticksWhen, nRuns, jobRuns, skipped, dueAtFirstEnd>>
traceVars == <<tbSpans, tbRoots, tbEvents, tbRaised, tbOpen>>
sinkVars == <<call_stack, call_start_times, event_queue, collected_events, sinkCalls,
              sinkOpen, sinkNested>>
streamVars == <<execution_task, genPc, sseOut, nKeepalives, clientGone>>
extractVars == <<sxClass, sxResult>>
uiVars == <<uiFile, uiLimit, uiLogs>>
dedupVars == <<redisLocks, whPc, whKey, whResp>>
toolVars == <<extractVars, uiVars, dedupVars>>
obsVars == <<traceVars, sinkVars, streamVars, toolVars>>
appVars == <<startupVars, finderVars, jobVars, schedVars, obsVars>>
vars == <<execVars, routeVars, queueVars, writerVars, appVars>>
\* What the sink, the stream generator and the trace builder leave alone.
serverVars == <<execVars, routeVars, queueVars, writerVars, startupVars,
                finderVars, jobVars, schedVars, toolVars>>
\* What signature extraction and the log reader leave alone.
coreVars == <<execVars, routeVars, queueVars, writerVars, startupVars,
              finderVars, jobVars, schedVars, traceVars, sinkVars, streamVars>>
notExtractVars == <<coreVars, uiVars, dedupVars>>
notUiVars == <<coreVars, extractVars, dedupVars>>
notDedupVars == <<coreVars, extractVars, uiVars>>

----------------------------------------------------------------------------
(* Bounds of the model.                                                    *)
NumTasks == 2            \* concurrent callers of run_sync_in_executor
PoolWorkers == 2         \* max_workers of a pool (tests use 2 and 4)
MaxPools == 2            \* calls of init_executor explored

Tasks == 1 .. NumTasks
Pools == 0 .. MaxPools   \* pool 0 is the event loop's default executor
Threads == Pools \X (1 .. PoolWorkers)

----------------------------------------------------------------------------
(* Context variables (contextvars.ContextVar, dspy.settings overrides).    *)
Unset == <<"unset", 0>>
\* the process-wide default: cv's default, dspy's globally configured LM
ProcessDefault == <<"default", 0>>
\* the per-call override task t binds before dispatch
Override(t) == <<"override", t>>
\* the value the callable of task t sets inside the worker
Inner(t) == <<"inner", t>>
\* ContextVar.get(): the value in the context, the default when not set
CvGet(ctx) == IF ctx = Unset THEN ProcessDefault ELSE ctx

ExecInit ==
    /\ executor = 0
    /\ nPools = 0
    /\ poolsShut = {}
    /\ tpc = [t \in Tasks |-> "idle"]
    /\ tctx = [t \in Tasks |-> Unset]
    /\ tfn = [t \in Tasks |-> "read"]
    /\ tpool = [t \in Tasks |-> 0]
    /\ threadCtx = [th \in Threads |-> Unset]
    /\ threadTask = [th \in Threads |-> 0]
    /\ observed = [t \in Tasks |-> Unset]
    /\ result = [t \in Tasks |-> Unset]

\* Work submitted to pool p and neither finished nor taken back.
PoolBusy(p) == \E t \in Tasks : tpool[t] = p /\ tpc[t] \in {"queued", "running"}

\* init_executor: shuts a previous pool down without waiting, stores a new one.
InitExecutor ==
    /\ nPools < MaxPools
    /\ nPools' = nPools + 1
    /\ executor' = nPools + 1
    /\ poolsShut' = IF executor # 0 THEN poolsShut \cup {executor} ELSE poolsShut
    /\ UNCHANGED <<tpc, tctx, tfn, tpool, threadCtx, threadTask, observed, result>>
    /\ UNCHANGED <<routeVars, queueVars, writerVars, appVars>>

\* A shutdown_executor that shuts the pool down and keeps it as the module's.
ShutdownExecutor_KeepsPool ==
    /\ executor # 0
    /\ ~PoolBusy(executor)
    /\ executor \notin poolsShut
    /\ poolsShut' = poolsShut \cup {executor}
    /\ UNCHANGED <<executor, nPools, tpc, tctx, tfn, tpool, threadCtx, threadTask,
                   observed, result>>
    /\ UNCHANGED <<routeVars, queueVars, writerVars, appVars>>

\* shutdown_executor: shutdown(wait=True) returns once the pool has drained,
\* then the module forgets the pool.
ShutdownExecutor ==
    /\ executor # 0
    /\ ~PoolBusy(executor)
    /\ poolsShut' = poolsShut \cup {executor}
    /\ executor' = 0
    /\ UNCHANGED <<nPools, tpc, tctx, tfn, tpool, threadCtx, threadTask, observed, result>>
    /\ UNCHANGED <<routeVars, queueVars, writerVars, appVars>>

\* The caller binds its per-call override in its own (task) context:
\* cv.set(value), or entering dspy.context(lm=...). (Tasks are numbered in
\* the order the loop starts them.)
BindOverride(t) ==
    /\ tpc[t] = "idle"
    /\ \A q \in Tasks : q < t => tpc[q] # "idle"
    /\ tctx' = [tctx EXCEPT ![t] = Override(t)]
    /\ tpc' = [tpc EXCEPT ![t] = "bound"]
    /\ UNCHANGED <<executor, nPools, poolsShut, tfn, tpool, threadCtx, threadTask,
                   observed, result>>
    /\ UNCHANGED <<routeVars, queueVars, writerVars, appVars>>

\* The pool run_sync_in_executor submits to: _executor, or the loop's default
\* executor (None) when no pool was initialized.
TargetPool == IF executor # 0 THEN executor ELSE 0

\* run_sync_in_executor up to its await: wraps fn in a lambda and hands it to
\* loop.run_in_executor. fn either only reads the variable or also sets it.
RunSyncInExecutor(t, fn) ==
    /\ tpc[t] = "bound"
    /\ tfn' = [tfn EXCEPT ![t] = fn]
    /\ tpool' = [tpool EXCEPT ![t] = TargetPool]
    /\ tpc' = [tpc EXCEPT ![t] = "queued"]
    /\ UNCHANGED <<executor, nPools, poolsShut, tctx, threadCtx, threadTask,
                   observed, result>>
    /\ UNCHANGED <<routeVars, queueVars, writerVars, appVars>>

\* A pool thread takes the submitted call.
WorkerStart(th, t) ==
    /\ tpc[t] = "queued"
    /\ th[1] = tpool[t]
    /\ threadTask[th] = 0
    /\ threadTask' = [threadTask EXCEPT ![th] = t]
    /\ tpc' = [tpc EXCEPT ![t] = "running"]
    /\ UNCHANGED <<executor, nPools, poolsShut, tctx, tfn, tpool, threadCtx,
                   observed, result>>
    /\ UNCHANGED <<routeVars, queueVars, writerVars, appVars>>

\* The context the submitted lambda runs in. The lambda is `fn(*args)`, handed
\* to the pool as it is: it runs in the context of the pool thread that calls
\* it, and the caller's context is not consulted.
RunContext(th, t) == threadCtx[th]

\* The pool thread runs the call: fn reads the variable, sets it when it is
\* the setting callable, and returns what it read. A set made in the thread's
\* own context stays there when the call ends.
WorkerRun(th, t) ==
    /\ tpc[t] = "running"
    /\ threadTask[th] = t
    /\ observed' = [observed EXCEPT ![t] = CvGet(RunContext(th, t))]
    /\ result' = [result EXCEPT ![t] = CvGet(RunContext(th, t))]
    /\ threadCtx' = [threadCtx EXCEPT ![th] = IF tfn[t] = "set" THEN Inner(t) ELSE @]
    /\ threadTask' = [threadTask EXCEPT ![th] = 0]
    /\ tpc' = [tpc EXCEPT ![t] = "returned"]
    /\ UNCHANGED <<executor, nPools, poolsShut, tctx, tfn, tpool>>
    /\ UNCHANGED <<routeVars, queueVars, writerVars, appVars>>

\* The await returns to the caller, in the caller's own context.
AwaitReturns(t) ==
    /\ tpc[t] = "returned"
    /\ tpc' = [tpc EXCEPT ![t] = "done"]
    /\ UNCHANGED <<executor, nPools, poolsShut, tctx, tfn, tpool, threadCtx,
                   threadTask, observed, result>>
    /\ UNCHANGED <<routeVars, queueVars, writerVars, appVars>>

ExecNext ==
    \/ InitExecutor
    \/ ShutdownExecutor
    \/ \E t \in Tasks : BindOverride(t)
    \/ \E t \in Tasks, fn \in {"read", "set"} : RunSyncInExecutor(t, fn)
    \/ \E th \in Threads, t \in Tasks : WorkerStart(th, t)
    \/ \E th \in Threads, t \in Tasks : WorkerRun(th, t)
    \/ \E t \in Tasks : AwaitReturns(t)

----------------------------------------------------------------------------
(* server/logging.py: log_inference.                                       *)
MaxEntries == 3          \* direct calls of log_inference explored

Units == {"alpha", "beta"}
LogsDir == 1             \* app.state.logs_dir, the one log directory of the app
Dirs == {LogsDir}
\* error=None, and the messages str(e) of the exceptions explored: an
\* exception raised without arguments has the empty message.
NoError == "<None>"
Msgs == {"", "boom"}

\* Python's truth value of the Optional[str] `error`.
Truthy(error) == error # NoError /\ error # ""

\* The log_entry dict log_inference builds: "error" is a key of the dict only
\* when `if error:` holds (NoError here stands for the key being absent).
LogEntryDict(program, error) ==
    [program |-> program,
     success |-> ~Truthy(error),
     error   |-> IF Truthy(error) THEN error ELSE NoError]

\* The shutdown sentinel and the tuples log_inference puts on the queue. id
\* numbers the puts and req names the request that logged (0: a direct call);
\* both identify the entry and are no fields of the code's tuple.
Sentinel == [kind |-> "sentinel"]
QueueItem(id, req, dir, program, error) ==
    [kind |-> "entry", id |-> id, req |-> req, dir |-> dir, program |-> program,
     entry |-> LogEntryDict(program, error)]

\* log_inference: builds the entry and puts it on the queue; it never blocks.
LogInference(req, dir, program, error) ==
    LET item == QueueItem(Len(enqueued) + 1, req, dir, program, error)
    IN /\ logQueue' = Append(logQueue, item)
       /\ enqueued' = Append(enqueued, item)

QueueInit ==
    /\ logQueue = <<>>
    /\ enqueued = <<>>

----------------------------------------------------------------------------
(* server/routes.py: create_program_routes and its handler run_program.    *)
NumRequests == 3         \* on-demand requests explored

Requests == 1 .. NumRequests

NoInstance == <<"instance", "none">>
\* The instance create_program_routes constructs when the route of unit u is
\* created, kept in the closure of run_program.
RouteInstance(u) == <<"instance", u>>

NoResponse == [status |-> 0, detail |-> NoError]

RouteInit ==
    /\ loopOwner = 0
    /\ rpc = [r \in Requests |-> "idle"]
    /\ runit = [r \in Requests |-> "alpha"]
    /\ rinputs = [r \in Requests |-> FALSE]
    /\ rerr = [r \in Requests |-> NoError]
    /\ rstage = [r \in Requests |-> "none"]
    /\ rcalls = [r \in Requests |-> 0]
    /\ rinst = [r \in Requests |-> NoInstance]
    /\ rthread = [r \in Requests |-> "none"]
    /\ rresp = [r \in Requests |-> NoResponse]

\* The event loop starts the handler of a request for unit u. run_program
\* holds no await: from here to its return or raise it occupies the loop.
\* (Requests are numbered in the order the loop starts them.)
RunProgramStart(r, u) ==
    /\ rpc[r] = "idle"
    /\ \A q \in Requests : q < r => rpc[q] # "idle"
    /\ loopOwner = 0
    /\ loopOwner' = r
    /\ runit' = [runit EXCEPT ![r] = u]
    /\ rpc' = [rpc EXCEPT ![r] = "convert"]
    /\ UNCHANGED <<rinputs, rerr, rstage, rcalls, rinst, rthread, rresp, queueVars>>
    /\ UNCHANGED <<execVars, writerVars, appVars>>

\* The `except Exception` clause is entered with the exception of message m
\* raised in `stage`.
Raise(r, stage, m) ==
    /\ rerr' = [rerr EXCEPT ![r] = m]
    /\ rstage' = [rstage EXCEPT ![r] = stage]
    /\ rpc' = [rpc EXCEPT ![r] = "except"]

\* Input conversion: request.model_dump() and _convert_dspy_types. It binds
\* `inputs`, or raises before or after `inputs` is bound.
RunProgramConvert(r) ==
    /\ rpc[r] = "convert"
    /\ loopOwner = r
    /\ \/ /\ rinputs' = [rinputs EXCEPT ![r] = TRUE]
          /\ rpc' = [rpc EXCEPT ![r] = "call"]
          /\ UNCHANGED <<rerr, rstage>>
       \/ \E m \in Msgs, bound \in BOOLEAN :
            /\ rinputs' = [rinputs EXCEPT ![r] = bound]
            /\ Raise(r, "convert", m)
    /\ UNCHANGED <<loopOwner, runit, rcalls, rinst, rthread, rresp, queueVars>>
    /\ UNCHANGED <<execVars, writerVars, appVars>>

\* The instance the handler calls: the closure's `instance`.
InvocationInstance(r) == RouteInstance(runit[r])

\* The thread the entry point runs on: `instance(**inputs)` is called in the
\* coroutine itself, on the event-loop thread.
EntryPointThread(r) == "loop"

\* with dspy.context(lm=lm): result = instance(**inputs) -- the call is made.
RunProgramCall(r) ==
    /\ rpc[r] = "call"
    /\ loopOwner = r
    /\ rcalls' = [rcalls EXCEPT ![r] = @ + 1]
    /\ rinst' = [rinst EXCEPT ![r] = InvocationInstance(r)]
    /\ rthread' = [rthread EXCEPT ![r] = EntryPointThread(r)]
    /\ rpc' = [rpc EXCEPT ![r] = "forward"]
    /\ UNCHANGED <<loopOwner, runit, rinputs, rerr, rstage, rresp, queueVars>>
    /\ UNCHANGED <<execVars, writerVars, appVars>>

\* The entry point returns, or raises an exception with message m.
RunProgramForward(r) ==
    /\ rpc[r] = "forward"
    /\ loopOwner = r
    /\ \/ /\ rpc' = [rpc EXCEPT ![r] = "normalize"]
          /\ UNCHANGED <<rerr, rstage>>
       \/ \E m \in Msgs : Raise(r, "forward", m)
    /\ UNCHANGED <<loopOwner, runit, rinputs, rcalls, rinst, rthread, rresp, queueVars>>
    /\ UNCHANGED <<execVars, writerVars, appVars>>

\* Result normalization (toDict / vars / str), which may raise.
RunProgramNormalize(r) ==
    /\ rpc[r] = "normalize"
    /\ loopOwner = r
    /\ \/ /\ rpc' = [rpc EXCEPT ![r] = "log"]
          /\ UNCHANGED <<rerr, rstage>>
       \/ \E m \in Msgs : Raise(r, "normalize", m)
    /\ UNCHANGED <<loopOwner, runit, rinputs, rcalls, rinst, rthread, rresp, queueVars>>
    /\ UNCHANGED <<execVars, writerVars, appVars>>

\* The success path: log the inference, return the output (a 200 response).
RunProgramSucceed(r) ==
    /\ rpc[r] = "log"
    /\ loopOwner = r
    /\ LogInference(r, LogsDir, runit[r], NoError)
    /\ rresp' = [rresp EXCEPT ![r] = [status |-> 200, detail |-> NoError]]
    /\ rpc' = [rpc EXCEPT ![r] = "done"]
    /\ loopOwner' = 0
    /\ UNCHANGED <<runit, rinputs, rerr, rstage, rcalls, rinst, rthread>>
    /\ UNCHANGED <<execVars, writerVars, appVars>>

\* ExceptClause with the failure suppressing the log entry.
ExceptClause_NoLog(r, m) ==
    /\ UNCHANGED queueVars
    /\ rresp' = [rresp EXCEPT ![r] = [status |-> 500, detail |-> m]]
    /\ rcalls' = rcalls

\* ExceptClause answering with a fixed detail instead of the message.
ExceptClause_FixedDetail(r, m) ==
    /\ LogInference(r, LogsDir, runit[r], m)
    /\ rresp' = [rresp EXCEPT ![r] = [status |-> 500, detail |-> "Internal Server Error"]]
    /\ rcalls' = rcalls

\* What the except clause does with the exception of message m: logs the
\* failed inference with error=str(e), raises HTTPException(500, detail=str(e)).
ExceptClause(r, m) ==
    /\ LogInference(r, LogsDir, runit[r], m)
    /\ rresp' = [rresp EXCEPT ![r] = [status |-> 500, detail |-> m]]
    /\ rcalls' = rcalls

\* The except clause of run_program.
RunProgramExcept(r) ==
    /\ rpc[r] = "except"
    /\ loopOwner = r
    /\ ExceptClause(r, rerr[r])
    /\ rpc' = [rpc EXCEPT ![r] = "done"]
    /\ loopOwner' = 0
    /\ UNCHANGED <<runit, rinputs, rerr, rstage, rinst, rthread>>
    /\ UNCHANGED <<execVars, writerVars, appVars>>

RouteNext ==
    \/ \E r \in Requests, u \in Units : RunProgramStart(r, u)
    \/ \E r \in Requests : RunProgramConvert(r)
    \/ \E r \in Requests : RunProgramCall(r)
    \/ \E r \in Requests : RunProgramForward(r)
    \/ \E r \in Requests : RunProgramNormalize(r)
    \/ \E r \in Requests : RunProgramSucceed(r)
    \/ \E r \in Requests : RunProgramExcept(r)

----------------------------------------------------------------------------
(* server/logging.py: the background writer.                               *)
MaxThreads == 1          \* writer threads started
\* range(49) in _log_writer_loop, scaled so that a full batch occurs within
\* MaxEntries entries.
BatchExtra == 2

WThreads == 1 .. MaxThreads
Keys == Dirs \X Units

\* json.dumps(log_entry): one text without a raw newline. id names the entry
\* the text was made from.
JsonDumps(item) == [kind |-> "json", id |-> item.id, doc |-> item.entry]
Newline == [kind |-> "nl"]

RECURSIVE JoinLines(_)
\* "\n".join(lines)
JoinLines(lines) ==
    IF Len(lines) = 0 THEN <<>>
    ELSE IF Len(lines) = 1 THEN <<lines[1]>>
    ELSE <<lines[1], Newline>> \o JoinLines(Tail(lines))

\* WriteText without the closing newline.
WriteText_NoNewline(lines) == JoinLines(lines)

\* The text written for one group: "\n".join(lines) + "\n"
WriteText(lines) == JoinLines(lines) \o <<Newline>>

RECURSIVE MapJson(_)
MapJson(items) ==
    IF items = <<>> THEN <<>> ELSE <<JsonDumps(Head(items))>> \o MapJson(Tail(items))

\* grouped[key]: the lines of the entries of the batch with that key, in
\* batch order.
Grouped(entries, key) ==
    MapJson(SelectSeq(entries, LAMBDA it : <<it.dir, it.program>> = key))

\* _flush_entries: each group is appended to the file of its key.
FlushEntries(fs, entries) ==
    [key \in Keys |->
        IF Grouped(entries, key) = <<>> THEN fs[key]
        ELSE fs[key] \o WriteText(Grouped(entries, key))]

IsAlive(th) == th # 0 /\ wpc[th] \notin {"unborn", "dead"}

EntryIds(q) == {q[i].id : i \in {j \in 1 .. Len(q) : q[j].kind = "entry"}}

WriterInit ==
    /\ shutdownEvent = FALSE
    /\ writerThread = 0
    /\ nThreads = 0
    /\ wpc = [th \in WThreads |-> "unborn"]
    /\ wentries = [th \in WThreads |-> <<>>]
    /\ wcount = [th \in WThreads |-> 0]
    /\ wafter = [th \in WThreads |-> "get"]
    /\ spc = "idle"
    /\ files = [key \in Keys |-> <<>>]
    /\ atSentinel = [th \in WThreads |-> {}]

\* The writer threads of a process in which start_log_writer is called again
\* after a stop_log_writer: one thread more than in a single start.
RestartThreads == 1 .. (MaxThreads + 1)

WriterInitRestart ==
    /\ shutdownEvent = FALSE
    /\ writerThread = 0
    /\ nThreads = 0
    /\ wpc = [th \in RestartThreads |-> "unborn"]
    /\ wentries = [th \in RestartThreads |-> <<>>]
    /\ wcount = [th \in RestartThreads |-> 0]
    /\ wafter = [th \in RestartThreads |-> "get"]
    /\ spc = "idle"
    /\ files = [key \in Keys |-> <<>>]
    /\ atSentinel = [th \in RestartThreads |-> {}]

\* start_log_writer, when no writer is alive: clears the event, starts a thread.
StartLogWriter ==
    /\ spc = "idle"
    /\ ~IsAlive(writerThread)
    /\ nThreads + 1 \in DOMAIN wpc
    /\ shutdownEvent' = FALSE
    /\ nThreads' = nThreads + 1
    /\ writerThread' = nThreads + 1
    /\ wpc' = [wpc EXCEPT ![nThreads + 1] = "get"]
    /\ UNCHANGED <<wentries, wcount, wafter, spc, files, atSentinel, queueVars>>
    /\ UNCHANGED <<execVars, routeVars, appVars>>

\* stop_log_writer, when a writer is alive: _shutdown_event.set()
StopSetEvent ==
    /\ spc = "idle"
    /\ IsAlive(writerThread)
    /\ shutdownEvent' = TRUE
    /\ spc' = "put"
    /\ UNCHANGED <<writerThread, nThreads, wpc, wentries, wcount, wafter, files,
                   atSentinel, queueVars>>
    /\ UNCHANGED <<execVars, routeVars, appVars>>

\* stop_log_writer: _log_queue.put(_SENTINEL)
StopPutSentinel ==
    /\ spc = "put"
    /\ logQueue' = Append(logQueue, Sentinel)
    /\ spc' = "join"
    /\ UNCHANGED <<enqueued, shutdownEvent, writerThread, nThreads, wpc, wentries,
                   wcount, wafter, files, atSentinel>>
    /\ UNCHANGED <<execVars, routeVars, appVars>>

\* stop_log_writer: join(timeout) returns, the writer having ended or the
\* timeout having passed, and _writer_thread is forgotten.
StopJoin ==
    /\ spc = "join"
    /\ writerThread' = 0
    /\ spc' = "idle"
    /\ UNCHANGED <<shutdownEvent, nThreads, wpc, wentries, wcount, wafter, files,
                   atSentinel, queueVars>>
    /\ UNCHANGED <<execVars, routeVars, appVars>>

\* The `error` arguments of the direct calls explored.
DirectErrors == {NoError}

\* A caller logs an inference directly.
LogInferenceCall(dir, program, error) ==
    /\ Len(enqueued) < MaxEntries
    /\ LogInference(0, dir, program, error)
    /\ UNCHANGED writerVars
    /\ UNCHANGED <<execVars, routeVars, appVars>>

\* The blocking get of the first item of a batch.
WriterGet(th) ==
    /\ th \in DOMAIN wpc
    /\ wpc[th] = "get"
    /\ logQueue # <<>>
    /\ logQueue' = Tail(logQueue)
    /\ IF Head(logQueue).kind = "sentinel"
       THEN /\ wpc' = [wpc EXCEPT ![th] = "drain"]
            /\ wentries' = [wentries EXCEPT ![th] = <<>>]
            /\ atSentinel' = [atSentinel EXCEPT ![th] = EntryIds(Tail(logQueue))]
            /\ UNCHANGED wcount
       ELSE /\ wpc' = [wpc EXCEPT ![th] = "batch"]
            /\ wentries' = [wentries EXCEPT ![th] = <<Head(logQueue)>>]
            /\ wcount' = [wcount EXCEPT ![th] = 0]
            /\ UNCHANGED atSentinel
    /\ UNCHANGED <<enqueued, shutdownEvent, writerThread, nThreads, wafter, spc, files>>
    /\ UNCHANGED <<execVars, routeVars, appVars>>

\* The get times out on an empty queue with the shutdown event set: break.
\* (With the event clear the loop continues, which changes nothing.)
WriterTimeout(th) ==
    /\ th \in DOMAIN wpc
    /\ wpc[th] = "get"
    /\ logQueue = <<>>
    /\ shutdownEvent
    /\ wpc' = [wpc EXCEPT ![th] = "dead"]
    /\ UNCHANGED <<shutdownEvent, writerThread, nThreads, wentries, wcount, wafter,
                   spc, files, atSentinel, queueVars>>
    /\ UNCHANGED <<execVars, routeVars, appVars>>

\* One iteration of the drain loop entered when the sentinel was the first
\* item: takes an item, keeping it unless it is a sentinel; on an empty queue
\* goes on to flush and exit.
WriterDrain(th) ==
    /\ th \in DOMAIN wpc
    /\ wpc[th] = "drain"
    /\ IF logQueue = <<>>
       THEN /\ wpc' = [wpc EXCEPT ![th] = "flush"]
            /\ wafter' = [wafter EXCEPT ![th] = "dead"]
            /\ UNCHANGED <<logQueue, wentries>>
       ELSE /\ logQueue' = Tail(logQueue)
            /\ wentries' = [wentries EXCEPT ![th] =
                   IF Head(logQueue).kind = "sentinel" THEN @ ELSE Append(@, Head(logQueue))]
            /\ UNCHANGED <<wpc, wafter>>
    /\ UNCHANGED <<enqueued, shutdownEvent, writerThread, nThreads, wcount, spc,
                   files, atSentinel>>
    /\ UNCHANGED <<execVars, routeVars, appVars>>

\* What the batching loop does on reading the sentinel: flushes the entries it
\* holds and returns.
BatchSentinel(th) ==
    /\ logQueue' = Tail(logQueue)
    /\ atSentinel' = [atSentinel EXCEPT ![th] = EntryIds(Tail(logQueue))]
    /\ wpc' = [wpc EXCEPT ![th] = "flush"]
    /\ wafter' = [wafter EXCEPT ![th] = "dead"]
    /\ UNCHANGED <<wentries, wcount>>

\* One iteration of the batching loop (`for _ in range(49)`): the loop ends
\* when the range is exhausted or the queue is empty, returns through a flush
\* on the sentinel, and else keeps the item.
WriterBatch(th) ==
    /\ th \in DOMAIN wpc
    /\ wpc[th] = "batch"
    /\ IF wcount[th] = BatchExtra \/ logQueue = <<>>
       THEN /\ wpc' = [wpc EXCEPT ![th] = "flush"]
            /\ wafter' = [wafter EXCEPT ![th] = "get"]
            /\ UNCHANGED <<logQueue, wentries, wcount, atSentinel>>
       ELSE IF Head(logQueue).kind = "sentinel"
       THEN BatchSentinel(th)
       ELSE /\ logQueue' = Tail(logQueue)
            /\ wentries' = [wentries EXCEPT ![th] = Append(@, Head(logQueue))]
            /\ wcount' = [wcount EXCEPT ![th] = @ + 1]
            /\ UNCHANGED <<wpc, wafter, atSentinel>>
    /\ UNCHANGED <<enqueued, shutdownEvent, writerThread, nThreads, spc, files>>
    /\ UNCHANGED <<execVars, routeVars, appVars>>

\* _flush_entries(entries), then back to the top of the loop or out of it.
WriterFlush(th) ==
    /\ th \in DOMAIN wpc
    /\ wpc[th] = "flush"
    /\ files' = FlushEntries(files, wentries[th])
    /\ wentries' = [wentries EXCEPT ![th] = <<>>]
    /\ wpc' = [wpc EXCEPT ![th] = wafter[th]]
    /\ UNCHANGED <<shutdownEvent, writerThread, nThreads, wcount, wafter, spc,
                   atSentinel, queueVars>>
    /\ UNCHANGED <<execVars, routeVars, appVars>>

LogNext ==
    \/ StartLogWriter
    \/ StopSetEvent
    \/ StopPutSentinel
    \/ StopJoin
    \/ \E d \in Dirs, u \in Units, e \in DirectErrors : LogInferenceCall(d, u, e)
    \/ \E th \in RestartThreads : WriterGet(th)
    \/ \E th \in RestartThreads : WriterTimeout(th)
    \/ \E th \in RestartThreads : WriterDrain(th)
    \/ \E th \in RestartThreads : WriterBatch(th)
    \/ \E th \in RestartThreads : WriterFlush(th)

----------------------------------------------------------------------------
(* gateway/*.py and discovery/gateway_finder.py: gateway classes and       *)
(* get_gateways_for_module.                                                *)
MaxDeclared == 3         \* gateway classes declared on one module

\* Gateway.path unset (None)
NoPath == <<>>

\* A gateway class: its name, which base it derives from ("api" an
\* APIGateway, "identity" IdentityGateway, "cron" a CronGateway), its `path`
\* attribute as the segments between the slashes, and what its constructor
\* does ("ok", "exception" raises an Exception, "exit" raises SystemExit as
\* JobPostingGateway.__init__ does without its environment variables).
GatewayClass(n, k, p, c) == [cls |-> n, kind |-> k, path |-> p, ctor |-> c]

IdentityGateway == GatewayClass("IdentityGateway", "identity", NoPath, "ok")
HookGateway == GatewayClass("Hook", "api", <<"hook">>, "ok")
Hook2Gateway == GatewayClass("Hook2", "api", <<"hook">>, "ok")
PlainGateway == GatewayClass("Plain", "api", NoPath, "ok")
AliasGateway == GatewayClass("Alias", "api", <<"alpha">>, "ok")
PollGateway == GatewayClass("Poll", "cron", NoPath, "ok")
BrokenGateway == GatewayClass("Broken", "api", NoPath, "exception")
JobPostingGateway == GatewayClass("JobPosting", "cron", NoPath, "exit")

GatewayClasses == {IdentityGateway, HookGateway, Hook2Gateway, PlainGateway,
                   AliasGateway, PollGateway, BrokenGateway, JobPostingGateway}

SeqsUpTo(S, n) == UNION {[1 .. k -> S] : k \in 0 .. n}

is_cron_gateway(gateway) == gateway.kind = "cron"
is_api_gateway(gateway) == gateway.kind \in {"api", "identity"}

\* The loop of get_gateways_for_module from the i-th class on: a constructor
\* raising an Exception is skipped, one raising anything else leaves the
\* function.
RECURSIVE Construct(_, _, _)
Construct(classes, i, acc) ==
    IF i > Len(classes) THEN [raised |-> "none", gateways |-> acc]
    ELSE IF classes[i].ctor = "ok" THEN Construct(classes, i + 1, Append(acc, classes[i]))
    ELSE IF classes[i].ctor = "exception" THEN Construct(classes, i + 1, acc)
    ELSE [raised |-> "SystemExit", gateways |-> <<>>]

\* get_gateways_for_module: the declared gateways that could be constructed,
\* a single IdentityGateway when none is declared or none could be.
get_gateways_for_module(classes) ==
    IF classes = <<>> THEN [raised |-> "none", gateways |-> <<IdentityGateway>>]
    ELSE IF Construct(classes, 1, <<>>).raised = "none"
            /\ Construct(classes, 1, <<>>).gateways = <<>>
    THEN [raised |-> "none", gateways |-> <<IdentityGateway>>]
    ELSE Construct(classes, 1, <<>>)

NotCalled == [raised |-> "not called", gateways |-> <<>>]

FinderInit ==
    /\ gfDeclared \in SeqsUpTo(GatewayClasses, MaxDeclared)
    /\ gfResult = NotCalled

\* A call get_gateways_for_module(module)
GetGatewaysCall ==
    /\ gfResult = NotCalled
    /\ gfResult' = get_gateways_for_module(gfDeclared)
    /\ UNCHANGED <<gfDeclared, startupVars, jobVars, schedVars>>
    /\ UNCHANGED <<execVars, routeVars, queueVars, writerVars, obsVars>>

FinderNext ==
    \/ GetGatewaysCall

----------------------------------------------------------------------------
(* server/app.py: the lifespan and _deferred_init.                         *)
MaxModules == 2          \* modules found by discover_modules
MaxRegistrations == 6    \* calls of register_cron_gateway on one scheduler

\* The gateway declarations (module.gateway_classes) of the modules explored.
Declarations ==
    { <<>>, <<HookGateway>>, <<PlainGateway>>, <<HookGateway, PlainGateway>>,
      <<HookGateway, Hook2Gateway>>, <<IdentityGateway, AliasGateway>>,
      <<PollGateway>>, <<PollGateway, IdentityGateway>>, <<BrokenGateway>>,
      <<BrokenGateway, HookGateway>>, <<JobPostingGateway>> }

DiscoveredModule == [name : Units, gateway_classes : Declarations]
Packages == SeqsUpTo(DiscoveredModule, MaxModules)

\* The LM _configure_dspy_model creates in create_app.
DefaultLM == "<default>"

NoStartError == [kind |-> "none", names |-> {}, path |-> NoPath, owners |-> <<>>]
\* ValueError("Error: Duplicate module names found: ...")
DuplicateError(dups) ==
    [kind |-> "ValueError: Duplicate module names", names |-> dups,
     path |-> NoPath, owners |-> <<>>]
\* ValueError("Route path conflict: '<path>' is used by both <a> and <b>...")
ConflictError(route_path, existing, gateway_id) ==
    [kind |-> "ValueError: Route path conflict", names |-> {},
     path |-> route_path, owners |-> <<existing, gateway_id>>]
\* What a gateway constructor raised past get_gateways_for_module.
ConstructorError(what) ==
    [kind |-> what, names |-> {}, path |-> NoPath, owners |-> <<>>]

\* duplicates: the names that module_names.count(name) > 1
Duplicates_None(ms) == {}

Duplicates(ms) ==
    {ms[i].name : i \in {j \in DOMAIN ms :
        Cardinality({k \in DOMAIN ms : ms[k].name = ms[j].name}) > 1}}

\* route_path: gateway.path, "/{module.name}" for an IdentityGateway, else
\* "/{module.name}/{gateway.__class__.__name__}"
RoutePath(module, gateway) ==
    IF gateway.path # NoPath THEN gateway.path
    ELSE IF gateway.kind = "identity" THEN <<module.name>>
    ELSE <<module.name, gateway.cls>>

\* gateway_id: "{module.name}.{gateway.__class__.__name__}"
GatewayId(module, gateway) == <<module.name, gateway.cls>>

\* `route_path in registered_paths` that never finds the path.
InRegisteredPaths_Never(route_path) == FALSE

InRegisteredPaths(route_path) == \E e \in registeredPaths : e[1] = route_path

\* registered_paths[route_path]
Existing(route_path) == (CHOOSE e \in registeredPaths : e[1] = route_path)[2]

\* The path create_program_routes gives the route it adds:
\* @app.post(f"/{program_name}")
create_program_routes(module) == <<module.name>>

\* job_id of register_cron_gateway: f"cron_{program_name}"
JobId(module) == <<"cron", module.name>>

StartupInit ==
    /\ phase = "created"
    /\ modules = <<>>
    /\ programLms = {}
    /\ lmInstances = {DefaultLM}
    /\ gwModule = 0
    /\ gwList = <<>>
    /\ gwIndex = 0
    /\ registeredPaths = {}
    /\ resolved = <<>>
    /\ routes = <<>>
    /\ ready = FALSE
    /\ startError = NoStartError
    /\ jobs = {}
    /\ addedJobs = <<>>
    /\ schedRunning = FALSE

\* A raise inside _deferred_init leaves the lifespan before the yield: the
\* server reports the failed startup and exits.
StartupFails(e) ==
    /\ phase' = "failed"
    /\ startError' = e

\* _deferred_init up to the duplicate check: init_executor, discover_modules,
\* the check of the names.
DeferredInitDiscover ==
    /\ phase = "created"
    /\ nPools' = nPools + 1
    /\ executor' = nPools + 1
    /\ poolsShut' = IF executor # 0 THEN poolsShut \cup {executor} ELSE poolsShut
    /\ modules' = package
    /\ IF Duplicates(package) # {}
       THEN StartupFails(DuplicateError(Duplicates(package)))
       ELSE /\ phase' = IF package = <<>> THEN "finish" ELSE "lms"
            /\ UNCHANGED startError
    /\ UNCHANGED <<package, programLms, lmInstances, gwModule, gwList, gwIndex,
                   registeredPaths, resolved, routes, ready>>
    /\ UNCHANGED <<tpc, tctx, tfn, tpool, threadCtx, threadTask, observed, result>>
    /\ UNCHANGED <<routeVars, queueVars, writerVars, obsVars, finderVars, jobVars, schedVars>>

\* One iteration of the loop creating the LM of each module; after the last,
\* the scheduler and registered_paths are created and the gateway loop begins.
DeferredInitCreateLM ==
    /\ phase = "lms"
    /\ LET module == modules[Cardinality(programLms) + 1] IN
          /\ programLms' = programLms \cup {module.name}
          /\ lmInstances' = lmInstances \cup {module.name}
    /\ IF Cardinality(programLms) + 1 = Len(modules)
       THEN /\ phase' = "gateways"
            /\ gwModule' = 1
            /\ gwIndex' = 0
       ELSE UNCHANGED <<phase, gwModule, gwIndex>>
    /\ UNCHANGED <<package, modules, gwList, registeredPaths, resolved, routes,
                   ready, startError>>
    /\ UNCHANGED <<execVars, routeVars, queueVars, writerVars, obsVars, finderVars, jobVars,
                   schedVars>>

\* The head of an iteration of the module loop:
\* gateways = get_gateways_for_module(module)
DeferredInitGetGateways ==
    /\ phase = "gateways"
    /\ gwIndex = 0
    /\ LET got == get_gateways_for_module(modules[gwModule].gateway_classes) IN
          IF got.raised # "none"
          THEN /\ StartupFails(ConstructorError(got.raised))
               /\ UNCHANGED <<gwList, gwIndex>>
          ELSE /\ gwList' = got.gateways
               /\ gwIndex' = 1
               /\ UNCHANGED <<phase, startError>>
    /\ UNCHANGED <<package, modules, programLms, lmInstances, gwModule,
                   registeredPaths, resolved, routes, ready>>
    /\ UNCHANGED <<execVars, routeVars, queueVars, writerVars, obsVars, finderVars, jobVars,
                   schedVars>>

\* The end of an iteration of the gateway loop: on to the next gateway, the
\* next module, or the rest of _deferred_init.
GatewayLoopAdvance ==
    IF gwIndex < Len(gwList)
    THEN /\ gwIndex' = gwIndex + 1
         /\ UNCHANGED <<phase, gwModule, gwList>>
    ELSE IF gwModule < Len(modules)
    THEN /\ gwModule' = gwModule + 1
         /\ gwIndex' = 0
         /\ gwList' = <<>>
         /\ UNCHANGED phase
    ELSE /\ phase' = "finish"
         /\ UNCHANGED <<gwModule, gwList, gwIndex>>

\* scheduler.register_cron_gateway(module, gateway, lm, model_name):
\* add_job(id=job_id), then self._jobs[program_name] = job_id
RegisterCronGateway(module) ==
    /\ addedJobs' = Append(addedJobs, JobId(module))
    /\ jobs' = {e \in jobs : e[1] # module.name} \cup {<<module.name, JobId(module)>>}

\* GatewayScheduler.job_count: len(self._jobs)
job_count == Cardinality(jobs)

\* A call of register_cron_gateway on a scheduler that was not started, as
\* _deferred_init and the tests make them: add_job keeps the job pending.
RegisterCall(module) ==
    /\ ~schedRunning
    /\ Len(addedJobs) < MaxRegistrations
    /\ RegisterCronGateway(module)
    /\ UNCHANGED schedRunning
    /\ UNCHANGED <<execVars, routeVars, queueVars, writerVars, obsVars, startupVars,
                   finderVars, schedVars>>

RegisterNext ==
    \E u \in Units : RegisterCall([name |-> u, gateway_classes |-> <<PollGateway>>])

\* One iteration of the gateway loop.
DeferredInitGateway ==
    /\ phase = "gateways"
    /\ gwIndex >= 1
    /\ LET module == modules[gwModule]
           gateway == gwList[gwIndex] IN
          IF is_cron_gateway(gateway)
          THEN /\ RegisterCronGateway(module)
               /\ GatewayLoopAdvance
               /\ UNCHANGED <<registeredPaths, resolved, routes, startError>>
          ELSE /\ resolved' = Append(resolved,
                      [path |-> RoutePath(module, gateway), id |-> GatewayId(module, gateway)])
               /\ UNCHANGED <<jobs, addedJobs>>
               /\ IF InRegisteredPaths(RoutePath(module, gateway))
                  THEN /\ StartupFails(ConflictError(RoutePath(module, gateway),
                               Existing(RoutePath(module, gateway)), GatewayId(module, gateway)))
                       /\ UNCHANGED <<registeredPaths, routes, gwModule, gwList, gwIndex>>
                  ELSE /\ registeredPaths' = registeredPaths \cup
                               {<<RoutePath(module, gateway), GatewayId(module, gateway)>>}
                       /\ routes' = Append(routes, create_program_routes(module))
                       /\ GatewayLoopAdvance
                       /\ UNCHANGED startError
    /\ UNCHANGED <<package, modules, programLms, lmInstances, ready, schedRunning>>
    /\ UNCHANGED <<execVars, routeVars, queueVars, writerVars, obsVars, finderVars, schedVars>>

\* The rest of _deferred_init: the programs and UI routes, then
\* app.state._ready = True
DeferredInitFinish ==
    /\ phase = "finish"
    /\ ready' = TRUE
    /\ phase' = "initialized"
    /\ UNCHANGED <<package, modules, programLms, lmInstances, gwModule, gwList,
                   gwIndex, registeredPaths, resolved, routes, startError>>
    /\ UNCHANGED <<execVars, routeVars, queueVars, writerVars, obsVars, finderVars, jobVars,
                   schedVars>>

\* The lifespan after _deferred_init: the on_ready callbacks, scheduler.start()
\* when there are jobs, and the yield: the application serves.
LifespanYield ==
    /\ phase = "initialized"
    /\ schedRunning' = (Cardinality(jobs) > 0)
    /\ phase' = "serving"
    /\ UNCHANGED <<package, modules, programLms, lmInstances, gwModule, gwList,
                   gwIndex, registeredPaths, resolved, routes, ready, startError>>
    /\ UNCHANGED <<jobs, addedJobs>>
    /\ UNCHANGED <<execVars, routeVars, queueVars, writerVars, obsVars, finderVars, schedVars>>

\* The lifespan after the yield, once the server has finished its requests:
\* scheduler.shutdown(), the gateway shutdowns, shutdown_executor().
LifespanShutdown ==
    /\ phase = "serving"
    /\ \A r \in Requests : rpc[r] \in {"idle", "done"}
    /\ schedRunning' = FALSE
    /\ poolsShut' = IF executor # 0 THEN poolsShut \cup {executor} ELSE poolsShut
    /\ executor' = 0
    /\ phase' = "stopped"
    /\ UNCHANGED <<package, modules, programLms, lmInstances, gwModule, gwList,
                   gwIndex, registeredPaths, resolved, routes, ready, startError>>
    /\ UNCHANGED <<jobs, addedJobs>>
    /\ UNCHANGED <<nPools, tpc, tctx, tfn, tpool, threadCtx, threadTask, observed, result>>
    /\ UNCHANGED <<routeVars, queueVars, writerVars, obsVars, finderVars, schedVars>>

\* GET /health/live: the status of the response.
liveness == 200

\* A readiness probe that does not look at app.state._ready.
readiness_IgnoresReady ==
    IF modules = <<>> THEN 503
    ELSE IF \E m \in DOMAIN modules : modules[m].name \notin programLms THEN 503
    ELSE 200

\* GET /health/ready: the status of the response.
readiness ==
    IF ~ready THEN 503
    ELSE IF modules = <<>> THEN 503
    ELSE IF \E m \in DOMAIN modules : modules[m].name \notin programLms THEN 503
    ELSE 200

\* A request for the route of unit u reaches the application while it serves.
ServeRunProgramStart(r, u) ==
    /\ phase = "serving"
    /\ \E i \in DOMAIN routes : routes[i] = <<u>>
    /\ RunProgramStart(r, u)

StartupNext ==
    \/ DeferredInitDiscover
    \/ DeferredInitCreateLM
    \/ DeferredInitGetGateways
    \/ DeferredInitGateway
    \/ DeferredInitFinish
    \/ LifespanYield
    \/ LifespanShutdown

----------------------------------------------------------------------------
(* server/scheduler.py: the job register_cron_gateway adds and its runs.   *)
MaxTicks == 3            \* run times of the cron trigger that pass
MaxBatch == 2            \* items returned by get_pipeline_inputs

\* add_job(..., max_instances=1, coalesce=True)
max_instances_Two == 1 + 1
max_instances == 1
coalesce == TRUE

\* An item of a batch is named by the step of its processing that raises:
\* the stripping of the "_" keys, _convert_dspy_types, execute_pipeline,
\* gateway.on_complete, or none.
Stages == {"none", "strip", "convert", "invoke", "hook"}

\* The keys of a raw input dict, as character sequences: "text", "a_b" and
\* "_meta", the last one metadata for on_complete.
KeyText == <<"t", "e", "x", "t">>
KeyAB == <<"a", "_", "b">>
KeyMeta == <<"_", "m", "e", "t", "a">>
RawInputs == {{KeyText, KeyMeta}, {KeyAB}}
\* The hooks of CronGateway (and of its base, Gateway, which declares none).
CronGatewayHooks == {"get_pipeline_inputs", "on_complete"}

\* An item of inputs_list: its dict (by its keys) and the step that raises.
BatchItem == [raw : RawInputs, fails : Stages]
\* len(inputs_list)
BatchSizes == 0 .. MaxBatch

\* k.startswith("_")
StartsWithUnderscore(k) == Len(k) >= 1 /\ k[1] = "_"

\* The dict without stripping.
StripMeta_None(raw_inputs) == raw_inputs

\* {k: v for k, v in raw_inputs.items() if not k.startswith("_")}
StripMeta(raw_inputs) == {k \in raw_inputs : ~StartsWithUnderscore(k)}

\* _convert_dspy_types(pipeline_inputs, module): the same keys, placeholder
\* values converted.
ConvertDspyTypes(pipeline_inputs) == pipeline_inputs

\* execute_pipeline(module, instance, lm, ..., inputs, logs_dir): the unit is
\* invoked with `inputs` as its keyword arguments and its output returned, or
\* the invocation raises.
PipelineOutput(i) == <<"output", i>>
execute_pipeline(i, inputs, item) ==
    [received |-> inputs,
     raised |-> item.fails = "invoke",
     output |-> PipelineOutput(i)]

NoRun == [id |-> 0, pc |-> "none", batch |-> <<>>, i |-> 0, attempted |-> <<>>,
          completed |-> <<>>, raised |-> FALSE, times |-> 0, fetched |-> FALSE,
          size |-> 0,
          received |-> <<>>, onComplete |-> <<>>, onError |-> <<>>]
\* A call of execute_job about to start, the first of `times` calls the
\* executor makes for one submission.
NewRun(id, times) ==
    [id |-> id, pc |-> "fetch", batch |-> <<>>, i |-> 0, attempted |-> <<>>,
     completed |-> <<>>, raised |-> FALSE, times |-> times, fetched |-> FALSE,
     size |-> 0,
     received |-> <<>>, onComplete |-> <<>>, onError |-> <<>>]

\* The run times executed for n due run times without coalescing: each.
RunTimes_Each(n) == n

\* The run times executed for n due run times: with coalesce, the last only.
RunTimes(n) == IF coalesce THEN 1 ELSE n

\* The places of jobRuns: there are never more runs than run times passed.
RunSlots == 1 .. MaxTicks

FirstRunExecuting == \E k \in 1 .. Len(jobRuns) : jobRuns[k].id = 1

\* GatewayScheduler() with one cron gateway registered for "alpha", started.
SchedIdle ==
    /\ cronDue = 0
    /\ ticksWhen = <<>>
    /\ nRuns = 0
    /\ jobRuns = <<>>
    /\ skipped = 0
    /\ dueAtFirstEnd = 0

\* A run time of the cron trigger passes.
CronTimePasses ==
    /\ schedRunning
    /\ Len(ticksWhen) < MaxTicks
    /\ cronDue' = cronDue + 1
    /\ ticksWhen' = Append(ticksWhen,
           IF FirstRunExecuting THEN "during" ELSE IF nRuns = 0 THEN "before" ELSE "after")
    /\ UNCHANGED <<nRuns, jobRuns, skipped, dueAtFirstEnd>>
    /\ UNCHANGED <<execVars, routeVars, queueVars, writerVars, obsVars, startupVars,
                   finderVars, jobVars>>

\* The scheduler wakes up and processes the job, whose trigger has run times
\* due: it submits the job once for them (coalesce) unless max_instances runs
\* are executing, in which case the firing is skipped; either way the job's
\* next run time moves on.
TriggerFires ==
    /\ schedRunning
    /\ cronDue > 0
    /\ cronDue' = 0
    /\ IF Len(jobRuns) >= max_instances
       THEN /\ skipped' = skipped + 1
            /\ UNCHANGED <<nRuns, jobRuns>>
       ELSE /\ jobRuns' = Append(jobRuns, NewRun(nRuns + 1, RunTimes(cronDue)))
            /\ nRuns' = nRuns + 1
            /\ UNCHANGED skipped
    /\ UNCHANGED <<ticksWhen, dueAtFirstEnd>>
    /\ UNCHANGED <<execVars, routeVars, queueVars, writerVars, obsVars, startupVars,
                   finderVars, jobVars>>

\* execute_job up to the loop: module.instantiate(), then
\* await gateway.get_pipeline_inputs() returns a list of n items. The items
\* themselves are drawn when the loop reads them.
RunFetch(k, n) ==
    /\ k <= Len(jobRuns)
    /\ jobRuns[k].pc = "fetch"
    /\ jobRuns' = [jobRuns EXCEPT ![k] =
           IF n = 0
           THEN [@ EXCEPT !.pc = "end", !.fetched = TRUE]
           ELSE [@ EXCEPT !.pc = "item", !.size = n, !.i = 1, !.fetched = TRUE]]
    /\ UNCHANGED <<cronDue, ticksWhen, nRuns, skipped, dueAtFirstEnd>>
    /\ UNCHANGED <<execVars, routeVars, queueVars, writerVars, obsVars, startupVars,
                   finderVars, jobVars>>

\* get_pipeline_inputs raises: the error is logged and execute_job returns.
RunFetchFails(k) ==
    /\ k <= Len(jobRuns)
    /\ jobRuns[k].pc = "fetch"
    /\ jobRuns' = [jobRuns EXCEPT ![k] = [@ EXCEPT !.pc = "end"]]
    /\ UNCHANGED <<cronDue, ticksWhen, nRuns, skipped, dueAtFirstEnd>>
    /\ UNCHANGED <<execVars, routeVars, queueVars, writerVars, obsVars, startupVars,
                   finderVars, jobVars>>

\* One iteration of `for raw_inputs in inputs_list`: the stripping and the
\* conversion, outside the try, then execute_pipeline and on_complete inside
\* it, whose exceptions are logged.
RunItem(k, item) ==
    /\ k <= Len(jobRuns)
    /\ jobRuns[k].pc = "item"
    /\ LET run == [jobRuns[k] EXCEPT !.batch = Append(@, item)]
           attempted == Append(run.attempted, run.i)
           inputs == ConvertDspyTypes(StripMeta(item.raw))
           call == execute_pipeline(run.i, inputs, item) IN
          jobRuns' = [jobRuns EXCEPT ![k] =
              IF item.fails \in {"strip", "convert"}
              THEN [run EXCEPT !.attempted = attempted, !.raised = TRUE, !.pc = "end"]
              ELSE [run EXCEPT
                      !.attempted = attempted,
                      !.received = Append(@, [item |-> run.i, inputs |-> call.received]),
                      !.onComplete = IF call.raised THEN @
                                     ELSE Append(@, [item |-> run.i, inputs |-> item.raw,
                                                     output |-> call.output]),
                      !.completed = IF call.raised THEN @ ELSE Append(@, run.i),
                      !.i = @ + 1,
                      !.pc = IF run.i = run.size THEN "end" ELSE "item"]]
    /\ UNCHANGED <<cronDue, ticksWhen, nRuns, skipped, dueAtFirstEnd>>
    /\ UNCHANGED <<execVars, routeVars, queueVars, writerVars, obsVars, startupVars,
                   finderVars, jobVars>>

\* execute_job returns or raises: the executor calls it again when more run
\* times were submitted, else the run is over.
RunEnd(k) ==
    /\ k <= Len(jobRuns)
    /\ jobRuns[k].pc = "end"
    /\ dueAtFirstEnd' = IF jobRuns[k].id = 1 THEN cronDue ELSE dueAtFirstEnd
    /\ IF jobRuns[k].times > 1
       THEN /\ jobRuns' = [jobRuns EXCEPT ![k] = NewRun(nRuns + 1, jobRuns[k].times - 1)]
            /\ nRuns' = nRuns + 1
       ELSE /\ jobRuns' = SelectSeq([j \in 1 .. Len(jobRuns) |->
                              IF j = k THEN NoRun ELSE jobRuns[j]], LAMBDA x : x # NoRun)
            /\ UNCHANGED nRuns
    /\ UNCHANGED <<cronDue, ticksWhen, skipped>>
    /\ UNCHANGED <<execVars, routeVars, queueVars, writerVars, obsVars, startupVars,
                   finderVars, jobVars>>

SchedNext ==
    \/ CronTimePasses
    \/ TriggerFires
    \/ \E k \in RunSlots, n \in BatchSizes : RunFetch(k, n)
    \/ \E k \in RunSlots : RunFetchFails(k)
    \/ \E k \in RunSlots, item \in BatchItem : RunItem(k, item)
    \/ \E k \in RunSlots : RunEnd(k)

----------------------------------------------------------------------------
(* server/trace_builder.py: TraceBuilder.                                  *)
(* A dict is a function on its keys; an optional value is None or Some(v). *)
(* Of a start event the model keeps the fields the builder's control flow  *)
(* and the trace's structure depend on; inputs, attributes, messages and   *)
(* the tool's description are copied into the span as they are.           *)
MaxLoose == 2            \* events fed in any order
MaxEvents == 4           \* events of a properly nested stream

None == <<>>
Some(v) == <<v>>
\* d.get(k, default)
Get(d, k, default) == IF k \in DOMAIN d THEN d[k] ELSE default
\* d[k] = v
SetKey(d, k, v) == [x \in DOMAIN d \cup {k} |-> IF x = k THEN v ELSE d[x]]

StartTypes == {"module_start", "lm_start", "tool_start", "adapter_format_start",
               "adapter_parse_start"}
EndTypes == {"module_end", "lm_end", "tool_end", "adapter_format_end",
             "adapter_parse_end"}
ModelName == "m"

\* The token usage of one model call, as on_lm_end reports it.
LmUsage == [input_tokens |-> 1, output_tokens |-> 1, total_tokens |-> 2]
\* The usage of n model calls as _process_outputs aggregates it from
\* Prediction.get_lm_usage() on a module's end.
AggUsage(n) == [total_input_tokens |-> n, total_output_tokens |-> n,
                by_model |-> [x \in {ModelName} |-> [input |-> n, output |-> n]]]

\* The span type of a start event (lines 71-87).
SpanType(event_type) ==
    CASE event_type = "module_start" -> "module"
      [] event_type = "lm_start" -> "lm"
      [] event_type = "tool_start" -> "tool"
      [] event_type \in {"adapter_format_start", "adapter_parse_start"} -> "adapter"
      [] OTHER -> "unknown"

\* The span name of a start event (lines 71-87).
SpanName(event) ==
    CASE event.type = "module_start" -> Get(event, "module_name", "UnknownModule")
      [] event.type = "lm_start" -> "LM(" \o Get(event, "model", "unknown") \o ")"
      [] event.type = "tool_start" -> "Tool(" \o Get(event, "tool_name", "unknown") \o ")"
      [] event.type = "adapter_format_start" ->
             "Adapter.format(" \o Get(event, "adapter_type", "unknown") \o ")"
      [] event.type = "adapter_parse_start" ->
             "Adapter.parse(" \o Get(event, "adapter_type", "unknown") \o ")"
      [] OTHER -> "Unknown"

\* The span entry of a start event (lines 89-116).
NewSpan(event) ==
    LET span == [call_id |-> event.call_id,
                 parent_call_id |-> Get(event, "parent_call_id", None),
                 type |-> SpanType(event.type),
                 name |-> SpanName(event),
                 depth |-> Get(event, "depth", 0),
                 start_time |-> Get(event, "timestamp", None),
                 end_time |-> None,
                 duration_ms |-> None,
                 outputs |-> None,
                 token_usage |-> None,
                 success |-> None,
                 error |-> None,
                 children |-> <<>>] IN
    IF span.type = "lm" THEN SetKey(span, "model", Get(event, "model", "None")) ELSE span

\* The minimal span of an end event whose start was missed (lines 138-142).
StubSpan(call_id) == [call_id |-> call_id, type |-> "unknown", name |-> "Unknown"]

\* Every span registered as a root, none as a child.
HandleStartEvent_AllRoots(spans, roots, event) ==
    [spans |-> SetKey(spans, event.call_id, NewSpan(event)),
     roots |-> Append(roots, event.call_id), raised |-> "none"]

\* _handle_start_event: the spans, the roots and the exception raised.
HandleStartEvent(spans, roots, event) ==
    LET span == NewSpan(event)
        stored == SetKey(spans, event.call_id, span)
        parent_id == span.parent_call_id IN
    IF parent_id = None
    THEN [spans |-> stored, roots |-> Append(roots, event.call_id), raised |-> "none"]
    ELSE IF parent_id[1] \notin DOMAIN stored
    THEN [spans |-> stored, roots |-> roots, raised |-> "none"]
    ELSE IF "children" \notin DOMAIN stored[parent_id[1]]
    THEN [spans |-> stored, roots |-> roots, raised |-> "KeyError"]
    ELSE [spans |-> [stored EXCEPT ![parent_id[1]] =
                        SetKey(@, "children", Append(@["children"], event.call_id))],
          roots |-> roots, raised |-> "none"]

\* An end event that finds no span is ignored.
EnsureSpan_Drop(spans, call_id) == spans

\* lines 136-142
EnsureSpan(spans, call_id) ==
    IF call_id \notin DOMAIN spans THEN SetKey(spans, call_id, StubSpan(call_id))
    ELSE spans

\* if event.get("token_usage")
Truthy_usage(event) == Get(event, "token_usage", None) # None

\* _handle_end_event
HandleEndEvent(spans, event) ==
    LET ensured == EnsureSpan(spans, event.call_id) IN
    IF event.call_id \notin DOMAIN ensured THEN ensured
    ELSE
    LET s1 == SetKey(ensured[event.call_id], "end_time", Get(event, "timestamp", None))
        s2 == SetKey(s1, "duration_ms", Get(event, "duration_ms", None))
        s3 == SetKey(s2, "outputs", Get(event, "outputs", None))
        s4 == SetKey(s3, "success", Get(event, "success", None))
        s5 == SetKey(s4, "error", Get(event, "error", None))
        s6 == IF Truthy_usage(event) THEN SetKey(s5, "token_usage", event.token_usage)
              ELSE s5 IN
    SetKey(ensured, event.call_id, s6)

\* The usage of `model` in by_model after adding i input and o output tokens.
AddModel(by_model, model, i, o) ==
    LET old == Get(by_model, model, [input |-> 0, output |-> 0]) IN
    SetKey(by_model, model, [input |-> old.input + i, output |-> old.output + o])

\* for model, usage in token_usage["by_model"].items() (lines 193-197)
RECURSIVE MergeByModel(_, _, _)
MergeByModel(acc, by_model, models) ==
    IF models = {} THEN acc
    ELSE LET model == CHOOSE x \in models : TRUE IN
         MergeByModel(AddModel(acc, model, by_model[model].input, by_model[model].output),
                      by_model, models \ {model})

\* One iteration of the loop of _aggregate_token_usage (lines 183-208).
AddSpanUsage(total, span) ==
    LET token_usage == Get(span, "token_usage", None) IN
    IF token_usage = None THEN total
    ELSE LET usage == token_usage[1] IN
         IF "by_model" \in DOMAIN usage
         THEN [total_input_tokens |->
                   total.total_input_tokens + Get(usage, "total_input_tokens", 0),
               total_output_tokens |->
                   total.total_output_tokens + Get(usage, "total_output_tokens", 0),
               by_model |-> MergeByModel(total.by_model, usage.by_model,
                                         DOMAIN usage.by_model)]
         ELSE IF "input_tokens" \in DOMAIN usage
         THEN [total_input_tokens |->
                   total.total_input_tokens + Get(usage, "input_tokens", 0),
               total_output_tokens |->
                   total.total_output_tokens + Get(usage, "output_tokens", 0),
               by_model |-> AddModel(total.by_model, Get(span, "model", "unknown"),
                                     Get(usage, "input_tokens", 0),
                                     Get(usage, "output_tokens", 0))]
         ELSE total

RECURSIVE AggregateOver(_, _, _)
AggregateOver(spans, ids, total) ==
    IF ids = {} THEN total
    ELSE LET id == CHOOSE x \in ids : TRUE IN
         AggregateOver(spans, ids \ {id}, AddSpanUsage(total, spans[id]))

\* _aggregate_token_usage
AggregateTokenUsage(spans) ==
    LET total == AggregateOver(spans, DOMAIN spans,
                     [total_input_tokens |-> 0, total_output_tokens |-> 0,
                      by_model |-> <<>>]) IN
    IF total.total_input_tokens > 0 \/ total.total_output_tokens > 0
    THEN Some(total) ELSE None

\* TraceBuilder.build()
build ==
    [root_call_ids |-> tbRoots,
     spans |-> tbSpans,
     token_usage |-> AggregateTokenUsage(tbSpans),
     span_count |-> Cardinality(DOMAIN tbSpans)]

\* TraceBuilder()
TraceInit ==
    /\ tbSpans = <<>>
    /\ tbRoots = <<>>
    /\ tbEvents = <<>>
    /\ tbRaised = "none"
    /\ tbOpen = <<>>

\* TraceBuilder.add_event(event)
AddEvent(event) ==
    /\ tbEvents' = Append(tbEvents, event)
    /\ IF "call_id" \notin DOMAIN event
       THEN UNCHANGED <<tbSpans, tbRoots, tbRaised>>
       ELSE IF event.type \in StartTypes
       THEN LET r == HandleStartEvent(tbSpans, tbRoots, event) IN
            /\ tbSpans' = r.spans
            /\ tbRoots' = r.roots
            /\ tbRaised' = IF r.raised # "none" THEN r.raised ELSE tbRaised
       ELSE IF event.type \in EndTypes
       THEN /\ tbSpans' = HandleEndEvent(tbSpans, event)
            /\ UNCHANGED <<tbRoots, tbRaised>>
       ELSE UNCHANGED <<tbSpans, tbRoots, tbRaised>>
    /\ UNCHANGED <<serverVars, sinkVars, streamVars>>

\* "timestamp": time.time(), the events being stamped in the order fed.
Stamp(event) == SetKey(event, "timestamp", Some(Len(tbEvents) + 1))

\* How a call ends: the fields of an end event that depend on it.
Outcomes == {"ok", "raised"}
OutcomeFields(o) ==
    IF o = "ok"
    THEN [outputs |-> Some("out"), success |-> Some(TRUE), error |-> None]
    ELSE [outputs |-> None, success |-> Some(FALSE), error |-> Some("boom")]

EndOf(start_type) ==
    CASE start_type = "module_start" -> "module_end"
      [] start_type = "lm_start" -> "lm_end"
      [] start_type = "tool_start" -> "tool_end"
      [] start_type = "adapter_format_start" -> "adapter_format_end"
      [] start_type = "adapter_parse_start" -> "adapter_parse_end"

\* The start events the sink emits, by type.
StartEvent(type, call_id, parent, depth) ==
    LET e == [type |-> type, call_id |-> call_id, parent_call_id |-> parent,
              depth |-> depth] IN
    IF type = "lm_start" THEN SetKey(e, "model", ModelName) ELSE e

\* The end events the sink emits, by type: module and model-call ends carry
\* a token_usage (a dict or None), the others none.
EndEvent(type, call_id, duration, o, usage) ==
    LET f == OutcomeFields(o)
        e == [type |-> type, call_id |-> call_id, duration_ms |-> duration,
              outputs |-> f.outputs, success |-> f.success, error |-> f.error] IN
    IF type \in {"module_end", "lm_end"} THEN SetKey(e, "token_usage", usage) ELSE e

\* Events in any order, with any missing: what a consumer of the sink's
\* events can be fed. An event of another type carries no call id.
LooseCallIds == {1, 2}
LooseEvents ==
    {StartEvent(t, c, p, 0) : t \in StartTypes, c \in LooseCallIds,
                              p \in {None} \cup {Some(x) : x \in LooseCallIds}}
    \cup {EndEvent(t, c, Some(1), o, None) : t \in EndTypes, c \in LooseCallIds,
                                             o \in Outcomes}
    \cup {EndEvent("lm_end", c, Some(1), o, Some(LmUsage)) : c \in LooseCallIds,
                                                             o \in Outcomes}
    \cup {EndEvent("module_end", c, Some(1), o, Some(AggUsage(1))) :
              c \in LooseCallIds, o \in Outcomes}
    \cup {[type |-> "stream_start"]}

FeedEvent(event) ==
    /\ Len(tbEvents) < MaxLoose
    /\ AddEvent(Stamp(event))
    /\ UNCHANGED tbOpen

TraceNext == \E event \in LooseEvents : FeedEvent(event)

\* ---- A properly nested event stream: the calls of one execution, each
\* ---- start followed by its end, children inside their parent.
\* The start events fed so far, in order.
StartsFed == SelectSeq(tbEvents, LAMBDA e : e.type \in StartTypes)
\* The start event of call c.
StartOf(c) == StartsFed[c]

\* Whether call c runs inside call a.
RECURSIVE Inside(_, _)
Inside(c, a) ==
    LET p == StartOf(c).parent_call_id IN
    IF p = None THEN FALSE
    ELSE IF p[1] = a THEN TRUE
    ELSE Inside(p[1], a)

\* The model calls that returned inside call a: what get_lm_usage() of a
\* module's Prediction accounts for.
LmCallsInside(a) ==
    {c \in 1 .. Len(StartsFed) :
        /\ StartOf(c).type = "lm_start"
        /\ Inside(c, a)
        /\ \E i \in DOMAIN tbEvents : /\ tbEvents[i].type = "lm_end"
                                      /\ tbEvents[i].call_id = c
                                      /\ tbEvents[i].success = Some(TRUE)}

\* A call of the execution starts: the sink emits its start event, with the
\* innermost open call as parent, and the builder is fed it.
CallStarts(type) ==
    /\ Len(tbEvents) < MaxEvents
    /\ LET call_id == Len(StartsFed) + 1
           parent == IF tbOpen = <<>> THEN None ELSE Some(tbOpen[Len(tbOpen)]) IN
       /\ AddEvent(Stamp(StartEvent(type, call_id, parent, Len(tbOpen))))
       /\ tbOpen' = Append(tbOpen, call_id)

\* The innermost open call ends, returning or raising; the output of a
\* module or model call that returned carries usage or not (track_usage, the
\* provider's response), a call that raised has no output.
CallEnds(o, reported) ==
    /\ Len(tbEvents) < MaxEvents
    /\ tbOpen # <<>>
    /\ LET call_id == tbOpen[Len(tbOpen)]
           type == EndOf(StartOf(call_id).type)
           duration == Some(Len(tbEvents) + 1 - StartOf(call_id).timestamp[1])
           n == Cardinality(LmCallsInside(call_id))
           usage == IF ~reported \/ o = "raised" THEN None
                    ELSE IF type = "lm_end" THEN Some(LmUsage)
                    ELSE IF n > 0 THEN Some(AggUsage(n))
                    ELSE None IN
       /\ AddEvent(Stamp(EndEvent(type, call_id, duration, o, usage)))
       /\ tbOpen' = SubSeq(tbOpen, 1, Len(tbOpen) - 1)

NestedNext ==
    \/ \E type \in StartTypes : CallStarts(type)
    \/ \E o \in Outcomes, reported \in BOOLEAN : CallEnds(o, reported)

----------------------------------------------------------------------------
(* server/streaming.py: StreamingCallback, the event sink. The execution   *)
(* calls its callbacks; each emitted event goes on the queue and into      *)
(* collected_events. Inputs, attributes and messages are copied into the   *)
(* start events as they are and left out of the model.                     *)
max_depth == 2           \* StreamingCallback.max_depth (50 by default)
MaxCalls == 4            \* calls the execution makes
MaxSinkEvents == 3       \* events emitted by a sink that nothing streams
MaxStreamEvents == 2     \* events emitted by a sink whose queue is streamed

\* Outputs handed to the end callbacks: a JSON value, or an object json.dumps
\* has no encoding for (a datetime, a set, an instance of a class).
JsonOut == "out"
PyObject == "object"
StrOf(v) == "str"
ToolNames == {"search", "finish"}
\* How a call ends: returning one of the outputs, or raising.
CallOutcomes == {"out", "object", "raised"}

\* The calls the execution has started: the call id is the position.
NewCallId == Len(sinkCalls) + 1
\* The execution runs its calls in the task, while the task runs.
Calling == execution_task = "running" /\ Len(sinkCalls) < MaxCalls
EventBound == IF genPc = "none" THEN MaxSinkEvents ELSE MaxStreamEvents
CanEmit == Len(collected_events) < EventBound

\* time.time(): a logical clock that every emitted event advances.
Now == Len(collected_events) + 1
\* self.call_stack[-1] if self.call_stack else None
ParentId == IF call_stack = <<>> THEN None ELSE Some(call_stack[Len(call_stack)])
\* list.remove(x) when x is in the list: the first occurrence goes.
RECURSIVE Remove(_, _)
Remove(list, x) ==
    IF list = <<>> THEN <<>>
    ELSE IF Head(list) = x THEN Tail(list)
    ELSE <<Head(list)>> \o Remove(Tail(list), x)
\* dict.pop(key, None): the dict without the key.
Pop(d, k) == [x \in DOMAIN d \ {k} |-> d[x]]

\* _emit_event: the event with its metadata, put on the queue and collected.
EmitEvent(event_type, call_id, data) ==
    LET event == [type |-> event_type, call_id |-> call_id,
                  timestamp |-> Some(Now)] @@ data IN
    /\ event_queue' = Append(event_queue, event)
    /\ collected_events' = Append(collected_events, event)

\* The common part of the start callbacks: parent, push, start time, emit.
PushAndEmit(event_type, data) ==
    /\ call_stack' = Append(call_stack, NewCallId)
    /\ call_start_times' = SetKey(call_start_times, NewCallId, Now)
    /\ EmitEvent(event_type, NewCallId,
                 [parent_call_id |-> ParentId, depth |-> Len(call_stack)] @@ data)

Unstreamed == UNCHANGED <<serverVars, traceVars, streamVars>>

\* The execution begins a call and hands it to the start callback of its kind.
CallBegins(start_type) ==
    /\ sinkCalls' = Append(sinkCalls, start_type)
    /\ sinkOpen' = Append(sinkOpen, NewCallId)
    /\ UNCHANGED sinkNested

on_module_start ==
    /\ Calling
    /\ CallBegins("module_start")
    /\ IF Len(call_stack) >= max_depth
       THEN UNCHANGED <<call_stack, call_start_times, event_queue, collected_events>>
       ELSE CanEmit /\ PushAndEmit("module_start", <<>>)
    /\ Unstreamed

on_lm_start ==
    /\ Calling /\ CanEmit
    /\ CallBegins("lm_start")
    /\ PushAndEmit("lm_start", [model |-> ModelName])
    /\ Unstreamed

on_tool_start(tool_name) ==
    /\ Calling
    /\ CallBegins("tool_start")
    /\ IF tool_name = "finish"
       THEN UNCHANGED <<call_stack, call_start_times, event_queue, collected_events>>
       ELSE CanEmit /\ PushAndEmit("tool_start", [tool_name |-> tool_name])
    /\ Unstreamed

on_adapter_format_start ==
    /\ Calling /\ CanEmit
    /\ CallBegins("adapter_format_start")
    /\ PushAndEmit("adapter_format_start", <<>>)
    /\ Unstreamed

on_adapter_parse_start ==
    /\ Calling /\ CanEmit
    /\ CallBegins("adapter_parse_start")
    /\ PushAndEmit("adapter_parse_start", <<>>)
    /\ Unstreamed

\* The "outputs" field of an end event, by type, for what the call returned;
\* none of the outputs modelled is a Prediction or carries usage.
EventOutputs(end_type, outputs) ==
    IF outputs = None THEN None
    ELSE CASE end_type = "lm_end" -> Some(StrOf(outputs[1]))
           [] end_type = "adapter_parse_end" ->
                IF outputs[1] = JsonOut THEN outputs ELSE Some(StrOf(outputs[1]))
           [] OTHER -> outputs

\* The data of an end event, by type.
EndData(end_type, call_id, outputs, exception) ==
    LET duration == IF call_id \in DOMAIN call_start_times
                    THEN Some(Now - call_start_times[call_id]) ELSE None
        base == [duration_ms |-> duration, success |-> Some(exception = None),
                 error |-> exception]
        out == [outputs |-> EventOutputs(end_type, outputs)] IN
    CASE end_type \in {"module_end", "lm_end"} -> base @@ out @@ [token_usage |-> None]
      [] end_type = "adapter_format_end" -> base
      [] OTHER -> base @@ out

\* on_module_end, on_lm_end, on_tool_end, on_adapter_format_end and
\* on_adapter_parse_end, for a call of the execution that has not ended: the
\* start time popped, the end event emitted, the call id removed from the
\* stack.
on_call_end(call_id, o) ==
    /\ execution_task = "running" /\ CanEmit
    /\ call_id \in {sinkOpen[i] : i \in DOMAIN sinkOpen}
    /\ sinkOpen' = SelectSeq(sinkOpen, LAMBDA c : c # call_id)
    /\ sinkNested' = (sinkNested /\ call_id = sinkOpen[Len(sinkOpen)])
    /\ LET end_type == EndOf(sinkCalls[call_id])
           outputs == IF o = "raised" THEN None ELSE Some(o)
           exception == IF o = "raised" THEN Some("boom") ELSE None IN
       /\ EmitEvent(end_type, call_id, EndData(end_type, call_id, outputs, exception))
       /\ call_start_times' = Pop(call_start_times, call_id)
       /\ call_stack' = Remove(call_stack, call_id)
    /\ UNCHANGED sinkCalls
    /\ Unstreamed

SinkInit ==
    /\ call_stack = <<>>
    /\ call_start_times = <<>>
    /\ event_queue = <<>>
    /\ collected_events = <<>>
    /\ sinkCalls = <<>>
    /\ sinkOpen = <<>>
    /\ sinkNested = TRUE

SinkNext ==
    \/ on_module_start
    \/ on_lm_start
    \/ \E tool_name \in ToolNames : on_tool_start(tool_name)
    \/ on_adapter_format_start
    \/ on_adapter_parse_start
    \/ \E call_id \in 1 .. MaxCalls, o \in CallOutcomes : on_call_end(call_id, o)

\* No generator: the sink is used without a stream.
StreamIdle ==
    /\ execution_task = "running"
    /\ genPc = "none"
    /\ sseOut = <<>>
    /\ nKeepalives = 0
    /\ clientGone = FALSE

----------------------------------------------------------------------------
(* server/streaming.py: event_stream_generator, from one suspension (a     *)
(* yield or an await) to the next. The execution task emits through the    *)
(* sink while it runs; the consumer of the generator is the response.      *)
MaxKeepalives == 1       \* keepalive lines of one stream

\* f"data: {json.dumps(payload)}\n\n" and the comment line.
SseData(payload) == <<"data", payload>>
Keepalive == <<"keepalive">>
\* json.dumps raises TypeError on an object it has no encoding for.
JsonSerializable(payload) == Get(payload, "outputs", None) # Some(PyObject)

YieldPoints == {"yield_start", "yield_event", "yield_keepalive", "yield_drain",
                "yield_terminal", "yield_cancelled"}
AwaitPoints == {"sleep_short", "sleep_long", "sleep_drain"}

Unsunk == UNCHANGED <<serverVars, traceVars, call_stack, call_start_times,
                      collected_events, sinkCalls, sinkOpen, sinkNested>>

\* The execution task finishes: its coroutine returns or raises.
TaskReturns ==
    /\ genPc # "none"
    /\ execution_task = "running"
    /\ execution_task' = "returned"
    /\ UNCHANGED <<genPc, sseOut, nKeepalives, clientGone, event_queue>>
    /\ Unsunk

TaskRaises ==
    /\ genPc # "none"
    /\ execution_task = "running"
    /\ execution_task' = "raised"
    /\ UNCHANGED <<genPc, sseOut, nKeepalives, clientGone, event_queue>>
    /\ Unsunk

\* event = event_queue.get(); yield f"data: {json.dumps(event)}\n\n": the
\* TypeError of json.dumps leaves the generator, whose only handler is for
\* CancelledError.
GetAndYield(yield_pc) ==
    /\ event_queue' = Tail(event_queue)
    /\ IF JsonSerializable(Head(event_queue))
       THEN /\ sseOut' = Append(sseOut, SseData(Head(event_queue)))
            /\ genPc' = yield_pc
       ELSE /\ genPc' = "raised"
            /\ UNCHANGED sseOut
    /\ UNCHANGED nKeepalives

\* The first resumption: up to the yield of stream_start.
GenStart ==
    /\ genPc = "created"
    /\ sseOut' = Append(sseOut, SseData([type |-> "stream_start",
                                         timestamp |-> Some(Now)]))
    /\ genPc' = "yield_start"
    /\ UNCHANGED <<execution_task, nKeepalives, clientGone, event_queue>>
    /\ Unsunk

\* The head of the polling loop, reached from the yield of stream_start and
\* from the two sleeps: an event, a keepalive, or out of the loop.
GenPoll ==
    /\ genPc \in {"yield_start", "sleep_short", "sleep_long"}
    /\ IF execution_task = "running"
       THEN IF event_queue # <<>>
            THEN GetAndYield("yield_event")
            ELSE /\ nKeepalives < MaxKeepalives
                 /\ sseOut' = Append(sseOut, Keepalive)
                 /\ nKeepalives' = nKeepalives + 1
                 /\ genPc' = "yield_keepalive"
                 /\ UNCHANGED event_queue
       ELSE /\ genPc' = "sleep_drain"
            /\ UNCHANGED <<sseOut, nKeepalives, event_queue>>
    /\ UNCHANGED <<execution_task, clientGone>>
    /\ Unsunk

\* Resumed after the yield of an event or of a keepalive: the sleep.
GenSleep ==
    /\ genPc \in {"yield_event", "yield_keepalive"}
    /\ genPc' = IF genPc = "yield_event" THEN "sleep_short" ELSE "sleep_long"
    /\ UNCHANGED <<execution_task, sseOut, nKeepalives, clientGone, event_queue>>
    /\ Unsunk

\* After the task is done: the queue drained, then the terminal event.
GenDrain ==
    /\ genPc \in {"sleep_drain", "yield_drain"}
    /\ IF event_queue # <<>>
       THEN GetAndYield("yield_drain")
       ELSE /\ sseOut' = Append(sseOut,
                 IF execution_task = "returned"
                 THEN SseData([type |-> "complete", result |-> JsonOut])
                 ELSE SseData([type |-> "error", error |-> "boom"]))
            /\ genPc' = "yield_terminal"
            /\ UNCHANGED <<nKeepalives, event_queue>>
    /\ UNCHANGED <<execution_task, clientGone>>
    /\ Unsunk

\* Resumed after the terminal event: the generator returns.
GenFinish ==
    /\ genPc \in {"yield_terminal", "yield_cancelled"}
    /\ genPc' = "finished"
    /\ UNCHANGED <<execution_task, sseOut, nKeepalives, clientGone, event_queue>>
    /\ Unsunk

\* The client disconnects and the response is cancelled. A generator that is
\* awaiting gets the CancelledError and yields "cancelled"; one suspended at
\* a yield is not resumed but closed, and GeneratorExit is not handled.
ClientDisconnects ==
    /\ ~clientGone
    /\ genPc \in YieldPoints \cup AwaitPoints
    /\ clientGone' = TRUE
    /\ IF genPc \in AwaitPoints
       THEN /\ sseOut' = Append(sseOut, SseData([type |-> "cancelled"]))
            /\ genPc' = "yield_cancelled"
       ELSE /\ genPc' = "closed"
            /\ UNCHANGED sseOut
    /\ UNCHANGED <<execution_task, nKeepalives, event_queue>>
    /\ Unsunk

\* event_stream_generator(event_queue, execution_task) called, not yet run.
StreamCreated ==
    /\ execution_task = "running"
    /\ genPc = "created"
    /\ sseOut = <<>>
    /\ nKeepalives = 0
    /\ clientGone = FALSE

StreamNext ==
    \/ SinkNext
    \/ TaskReturns
    \/ TaskRaises
    \/ GenStart
    \/ GenPoll
    \/ GenSleep
    \/ GenDrain
    \/ GenFinish
    \/ ClientDisconnects

----------------------------------------------------------------------------
(* discovery/module_finder.py: _extract_signature and its three            *)
(* strategies. A module class is its forward() method (type hints and      *)
(* body, as the parsed tree) and the attributes its instance holds. A      *)
(* signature is its input and output fields, each a name, an annotation    *)
(* and a description.                                                      *)
MaxStmts == 3            \* statements in the body of forward()

Field(name, annotation, desc) ==
    [name |-> name, annotation |-> annotation, desc |-> desc]
\* The signatures of the predictors a module may hold, by attribute name.
SignatureOf(attr) ==
    CASE attr = "summarizer" ->
           [input_fields |-> <<Field("text", "<class 'str'>", "The text")>>,
            output_fields |-> <<Field("summary", "<class 'str'>", "The summary")>>]
      [] attr = "tagger" ->
           [input_fields |-> <<Field("summary", "<class 'str'>", "A summary")>>,
            output_fields |-> <<Field("tags", "typing.List[str]", "The tags")>>]
Predictors == {"summarizer", "tagger"}
\* instance.__dict__, in insertion order.
InstanceDicts == {<<"summarizer", "tagger">>, <<"tagger", "summarizer">>,
                  <<"summarizer">>}

\* The fields of the classes used as return annotation.
ReturnTypeFields(type) ==
    CASE type = "SummaryOut" -> <<Field("summary", "<class 'str'>", "")>>
      [] OTHER -> <<>>
\* get_type_hints(forward): none, parameters only, the return only, all with
\* a Prediction returned, all with a typed dict returned.
ForwardHints ==
    {<<>>,
     [text |-> "<class 'str'>"],
     [return |-> "SummaryOut"],
     [text |-> "<class 'str'>", return |-> "Prediction"],
     [text |-> "<class 'str'>", return |-> "SummaryOut"]}

\* The statements of the body of forward(): x = self.attr(...), an if whose
\* body returns a Prediction, return dspy.Prediction(f = ..., ...).
Assign(attr) == [node |-> "Assign", call |-> attr]
Return(fields) == [node |-> "Return", keywords |-> fields]
If(body) == [node |-> "If", body |-> body]
ReturnKeywords == {<<"summary">>, <<"summary", "tags">>, <<"summary", "error">>}
Statements ==
    {Assign(attr) : attr \in Predictors}
      \cup {Return(fields) : fields \in ReturnKeywords}
      \cup {If(<<Return(fields)>>) : fields \in ReturnKeywords}
      \cup {If(<<Assign("tagger")>>)}
Bodies == UNION {[1 .. n -> Statements] : n \in 1 .. MaxStmts}
ModuleClasses ==
    [hints : ForwardHints, body : Bodies, dict : InstanceDicts]

\* _format_type_name on the annotations modelled, written as their repr: a
\* class gives its __name__, a generic its str() without "typing.".
FormatTypeName(annotation) ==
    CASE annotation = "<class 'str'>" -> "str"
      [] annotation = "typing.List[str]" -> "List[str]"
      [] OTHER -> annotation

\* _get_signature_from_type_hints: every path returns None.
GetSignatureFromTypeHints(class) ==
    IF "return" \notin DOMAIN class.hints \/ Cardinality(DOMAIN class.hints) <= 1
    THEN None
    ELSE IF class.hints["return"] = "Prediction" THEN None
    ELSE None

\* ForwardMethodAnalyzer._visit_statement over a list of statements: the
\* first self.attr(...) call found, the body of an if included.
RECURSIVE FirstPredictorCall(_)
FirstPredictorCall(stmts) ==
    IF stmts = <<>> THEN None
    ELSE LET stmt == Head(stmts)
             found == CASE stmt.node = "Assign" -> Some(stmt.call)
                        [] stmt.node = "If" -> FirstPredictorCall(stmt.body)
                        [] OTHER -> None IN
         IF found # None THEN found ELSE FirstPredictorCall(Tail(stmts))

\* visit_FunctionDef, second loop: the keywords of the return statements
\* among the statements of the body of forward().
RECURSIVE ReturnFields(_)
ReturnFields(stmts) ==
    IF stmts = <<>> THEN <<>>
    ELSE (IF Head(stmts).node = "Return" THEN Head(stmts).keywords ELSE <<>>)
           \o ReturnFields(Tail(stmts))

\* {"type": _format_type_name(annotation), "description": desc}, per field.
FieldMetadata(field) ==
    [name |-> field.name, type |-> FormatTypeName(field.annotation),
     description |-> field.desc]
MetadataOf(fields) == [i \in DOMAIN fields |-> FieldMetadata(fields[i])]
NamesOf(fields) == [i \in DOMAIN fields |-> fields[i].name]
Range(seq) == {seq[i] : i \in DOMAIN seq}

\* ", ".join(names)
RECURSIVE Join(_)
Join(names) ==
    IF names = <<>> THEN ""
    ELSE IF Len(names) = 1 THEN names[1]
    ELSE names[1] \o ", " \o Join(Tail(names))

\* all_signatures: the signatures of the attributes of the instance.
AllSignatures(dict) == [i \in DOMAIN dict |-> SignatureOf(dict[i])]

\* The output field of that name in the first signature that has one, the
\* generic string field when none has.
RECURSIVE ResolveField(_, _)
ResolveField(field_name, signatures) ==
    IF signatures = <<>>
    THEN [name |-> field_name, type |-> "str", description |-> ""]
    ELSE LET outs == SelectSeq(Head(signatures).output_fields,
                               LAMBDA f : f.name = field_name) IN
         IF outs # <<>> THEN FieldMetadata(outs[1])
         ELSE ResolveField(field_name, Tail(signatures))

\* output_fields[name] = ... for each returned name: a dict keeps one entry
\* per key, at the place of its first insertion, with the last value.
RECURSIVE ResolveAll(_, _, _)
ResolveAll(return_fields, signatures, acc) ==
    IF return_fields = <<>> THEN acc
    ELSE LET name == Head(return_fields)
             entry == ResolveField(name, signatures)
             next == IF name \in Range(NamesOf(acc))
                     THEN [i \in DOMAIN acc |->
                              IF acc[i].name = name THEN entry ELSE acc[i]]
                     ELSE Append(acc, entry) IN
         ResolveAll(Tail(return_fields), signatures, next)

\* _build_signature_metadata
BuildSignatureMetadata(input_signature, return_fields, dict) ==
    LET matches == Range(return_fields) = Range(NamesOf(input_signature.output_fields))
        output_names == IF matches THEN NamesOf(input_signature.output_fields)
                        ELSE return_fields
        output_fields == IF matches THEN MetadataOf(input_signature.output_fields)
                         ELSE ResolveAll(return_fields, AllSignatures(dict), <<>>) IN
    [signature_string |-> Join(NamesOf(input_signature.input_fields)) \o " -> "
                            \o Join(output_names),
     input_fields |-> MetadataOf(input_signature.input_fields),
     output_fields |-> output_fields]

\* The result of _extract_signature, and the strategy that gave it.
Extracted(strategy, signature, metadata) ==
    [strategy |-> strategy, signature |-> signature, metadata |-> metadata]
NoSignature == Extracted("none", None, None)

\* _extract_signature_from_forward
ExtractSignatureFromForward(class) ==
    LET first_predictor_call == FirstPredictorCall(class.body)
        return_fields == ReturnFields(class.body)
        input_signature ==
            IF first_predictor_call # None
                 /\ first_predictor_call[1] \in Range(class.dict)
            THEN Some(SignatureOf(first_predictor_call[1])) ELSE None IN
    IF input_signature = None THEN None
    ELSE IF return_fields # <<>>
    THEN Some(Extracted("forward", input_signature,
              Some(BuildSignatureMetadata(input_signature[1], return_fields,
                                          class.dict))))
    ELSE Some(Extracted("forward", input_signature, None))

\* _extract_signature: the strategies in order.
ExtractSignature(class) ==
    LET hinted == GetSignatureFromTypeHints(class)
        analysed == ExtractSignatureFromForward(class) IN
    IF hinted # None THEN Extracted("type_hints", hinted, None)
    ELSE IF analysed # None THEN analysed[1]
    ELSE IF class.dict # <<>>
    THEN Extracted("instance", Some(SignatureOf(class.dict[1])), None)
    ELSE NoSignature

NotExtracted == Extracted("not extracted", None, None)

\* _extract_signature(module_class) called on a class.
ExtractCall ==
    /\ sxResult = NotExtracted
    /\ sxResult' = ExtractSignature(sxClass)
    /\ UNCHANGED sxClass
    /\ UNCHANGED notExtractVars

ExtractInit ==
    /\ sxClass \in ModuleClasses
    /\ sxResult = NotExtracted
\* No class under extraction.
ExtractIdle ==
    /\ sxClass = [hints |-> <<>>, body |-> <<>>, dict |-> <<>>]
    /\ sxResult = NotExtracted

ExtractNext == ExtractCall

----------------------------------------------------------------------------
(* server/ui.py: get_recent_logs over the log file of one program. A line  *)
(* of the file is the text of an entry, a partial entry or a blank line.   *)
MaxLines == 3            \* lines in the log file
MaxLimit == 2            \* the limit asked for

\* The lines a log file may hold: two entries as _flush_entries writes them,
\* the beginning of an entry, an empty line.
LogLines == {"{\"id\": 1}\n", "{\"id\": 2}\n", "{\"id\":", "\n"}
\* str.strip()
Strip(line) ==
    CASE line = "{\"id\": 1}\n" -> "{\"id\": 1}"
      [] line = "{\"id\": 2}\n" -> "{\"id\": 2}"
      [] line = "\n" -> ""
      [] OTHER -> line
\* json.loads: the entry, or None where it raises JSONDecodeError.
JsonLoads(text) ==
    CASE text = "{\"id\": 1}" -> Some([id |-> 1])
      [] text = "{\"id\": 2}" -> Some([id |-> 2])
      [] OTHER -> None

\* lines[-limit:] if len(lines) > limit else lines; a slice from -0 is a
\* slice from 0.
RecentLines(lines, limit) ==
    IF Len(lines) > limit
    THEN (IF limit = 0 THEN lines
          ELSE SubSeq(lines, Len(lines) - limit + 1, Len(lines)))
    ELSE lines

\* The loop over recent_lines: the entries of the lines that parse.
RECURSIVE ParseLines(_)
ParseLines(lines) ==
    IF lines = <<>> THEN <<>>
    ELSE LET line == Strip(Head(lines))
             rest == ParseLines(Tail(lines)) IN
         IF line = "" THEN rest
         ELSE IF JsonLoads(line) = None THEN rest
         ELSE <<JsonLoads(line)[1]>> \o rest

\* list.reverse()
Reverse(list) == [i \in DOMAIN list |-> list[Len(list) + 1 - i]]

\* get_recent_logs(logs_dir, program_name, limit); the file is None when it
\* does not exist.
get_recent_logs(file, limit) ==
    IF file = None THEN <<>>
    ELSE Reverse(ParseLines(RecentLines(file[1], limit)))

\* get_recent_logs not called yet.
NotRead == None

GetRecentLogsCall ==
    /\ uiLogs = NotRead
    /\ uiLogs' = Some(get_recent_logs(uiFile, uiLimit))
    /\ UNCHANGED <<uiFile, uiLimit>>
    /\ UNCHANGED notUiVars

UiInit ==
    /\ uiFile \in {None} \cup {Some(lines) : lines \in SeqsUpTo(LogLines, MaxLines)}
    /\ uiLimit \in 0 .. MaxLimit
    /\ uiLogs = NotRead
\* No log file read.
UiIdle ==
    /\ uiFile = None
    /\ uiLimit = 0
    /\ uiLogs = NotRead

UiNext == GetRecentLogsCall

----------------------------------------------------------------------------
(* examples/code-review-agent: the webhook gateway's deduplication. The    *)
(* lock of a pull request is a key of the Redis server, set by the handler *)
(* if absent (SET NX EX 600), deleted by release and by the server when    *)
(* its time to live has passed.                                            *)
NumWebhooks == 3         \* webhooks delivered

Webhooks == 1 .. NumWebhooks
\* pr_key: f"{repo full_name}:{pr number}"
PrKeys == {"o/r:1", "o/r:2"}
\* payload.get("installation", {}).get("id")
InstallationIds == {None, Some("installation")}

\* RedisDedup.try_acquire: set-if-not-exists; acquired iff the key was absent.
try_acquire(locks, key) ==
    [acquired |-> key \notin locks, locks |-> locks \cup {key}]
\* RedisDedup.release: the key deleted, whoever set it.
release(locks, key) == locks \ {key}

WebhookResponse(status_code, status, message) ==
    [status_code |-> status_code, status |-> status, message |-> message]

\* webhook_handler, with the signature verified and the body parsed: the
\* event filter, the lock, the installation id, the background task.
\* (Webhooks are numbered in the order they are handled.)
webhook_handler(w, pr_key, installation_id, should_process) ==
    /\ whPc[w] = "idle"
    /\ \A v \in Webhooks : v < w => whPc[v] # "idle"
    /\ whKey' = [whKey EXCEPT ![w] = pr_key]
    /\ IF ~should_process
       THEN /\ whResp' = [whResp EXCEPT ![w] = WebhookResponse(200, "skipped", "Ignoring")]
            /\ whPc' = [whPc EXCEPT ![w] = "responded"]
            /\ UNCHANGED redisLocks
       ELSE LET got == try_acquire(redisLocks, pr_key) IN
            IF ~got.acquired
            THEN /\ whResp' = [whResp EXCEPT ![w] =
                       WebhookResponse(200, "skipped", "Review already in progress")]
                 /\ whPc' = [whPc EXCEPT ![w] = "responded"]
                 /\ redisLocks' = got.locks
            ELSE IF installation_id = None
            THEN /\ redisLocks' = release(got.locks, pr_key)
                 /\ whResp' = [whResp EXCEPT ![w] =
                       WebhookResponse(400, "error", "Missing installation ID")]
                 /\ whPc' = [whPc EXCEPT ![w] = "responded"]
            ELSE /\ redisLocks' = got.locks
                 /\ whResp' = [whResp EXCEPT ![w] =
                       WebhookResponse(202, "accepted", "Review scheduled")]
                 /\ whPc' = [whPc EXCEPT ![w] = "scheduled"]
    /\ UNCHANGED notDedupVars

\* _process_review begins: the background task runs after the response.
ProcessReviewStart(w) ==
    /\ whPc[w] = "scheduled"
    /\ whPc' = [whPc EXCEPT ![w] = "running"]
    /\ UNCHANGED <<whKey, whResp, redisLocks>>
    /\ UNCHANGED notDedupVars

\* _process_review ends, the review posted or an exception logged: the
\* finally clause releases the lock.
ProcessReviewEnd(w, raised) ==
    /\ whPc[w] = "running"
    /\ whPc' = [whPc EXCEPT ![w] = IF raised THEN "failed" ELSE "posted"]
    /\ redisLocks' = release(redisLocks, whKey[w])
    /\ UNCHANGED <<whKey, whResp>>
    /\ UNCHANGED notDedupVars

\* The time to live of a lock passes: the server deletes the key.
TtlExpires(key) ==
    /\ key \in redisLocks
    /\ redisLocks' = redisLocks \ {key}
    /\ UNCHANGED <<whPc, whKey, whResp>>
    /\ UNCHANGED notDedupVars

DedupInit ==
    /\ redisLocks = {}
    /\ whPc = [w \in Webhooks |-> "idle"]
    /\ whKey = [w \in Webhooks |-> None]
    /\ whResp = [w \in Webhooks |-> None]

DedupNext ==
    \/ \E w \in Webhooks, pr_key \in PrKeys, installation_id \in InstallationIds,
          should_process \in BOOLEAN :
           webhook_handler(w, pr_key, installation_id, should_process)
    \/ \E w \in Webhooks : ProcessReviewStart(w)
    \/ \E w \in Webhooks, raised \in BOOLEAN : ProcessReviewEnd(w, raised)
    \/ \E key \in PrKeys : TtlExpires(key)

----------------------------------------------------------------------------
(* The specifications.                                                     *)
ToolIdle == ExtractIdle /\ UiIdle /\ DedupInit
ObsInit == TraceInit /\ SinkInit /\ StreamIdle /\ ToolIdle

\* No package is served, no gateway looked up, no job scheduled.
AppInit ==
    /\ package = <<>>
    /\ StartupInit
    /\ gfDeclared = <<>>
    /\ gfResult = NotCalled
    /\ SchedIdle
    /\ ObsInit

Init == ExecInit /\ RouteInit /\ QueueInit /\ WriterInit /\ AppInit

\* Concurrent callers of run_sync_in_executor.
SpecExec == Init /\ [][ExecNext]_vars

\* On-demand requests served by run_program.
SpecRoute == Init /\ [][RouteNext]_vars

\* Producers of log entries and the background writer.
SpecLog == Init /\ [][LogNext]_vars

InitRestart == ExecInit /\ RouteInit /\ QueueInit /\ WriterInitRestart /\ AppInit

\* The same, with start_log_writer called again after stop_log_writer.
SpecLogRestart == InitRestart /\ [][LogNext]_vars

\* get_gateways_for_module called on a module.
InitFinder ==
    /\ ExecInit /\ RouteInit /\ QueueInit /\ WriterInit
    /\ package = <<>>
    /\ StartupInit
    /\ FinderInit
    /\ SchedIdle
    /\ ObsInit

SpecFinder == InitFinder /\ [][FinderNext]_vars

\* The lifespan of an application over a package.
InitStartup ==
    /\ ExecInit /\ RouteInit /\ QueueInit /\ WriterInit
    /\ package \in Packages
    /\ StartupInit
    /\ gfDeclared = <<>>
    /\ gfResult = NotCalled
    /\ SchedIdle
    /\ ObsInit

SpecStartup == InitStartup /\ [][StartupNext]_vars

\* An application serving a package of two modules without declared gateways,
\* from the start of its lifespan to the end: the lifespan, and the requests
\* run_program handles.
InitServe ==
    /\ ExecInit /\ RouteInit /\ QueueInit /\ WriterInit
    /\ package = <<[name |-> "alpha", gateway_classes |-> <<>>],
                   [name |-> "beta", gateway_classes |-> <<>>]>>
    /\ StartupInit
    /\ gfDeclared = <<>>
    /\ gfResult = NotCalled
    /\ SchedIdle
    /\ ObsInit

ServeNext ==
    \/ DeferredInitDiscover
    \/ DeferredInitCreateLM
    \/ DeferredInitGetGateways
    \/ DeferredInitGateway
    \/ DeferredInitFinish
    \/ LifespanYield
    \/ LifespanShutdown
    \/ \E r \in Requests, u \in Units : ServeRunProgramStart(r, u)
    \/ \E r \in Requests : RunProgramConvert(r)
    \/ \E r \in Requests : RunProgramCall(r)
    \/ \E r \in Requests : RunProgramForward(r)
    \/ \E r \in Requests : RunProgramNormalize(r)
    \/ \E r \in Requests : RunProgramSucceed(r)
    \/ \E r \in Requests : RunProgramExcept(r)

SpecServe == InitServe /\ [][ServeNext]_vars

\* A GatewayScheduler with the cron gateway of one module registered, started.
InitSched ==
    /\ ExecInit /\ RouteInit /\ QueueInit /\ WriterInit
    /\ package = <<>>
    /\ phase = "created"
    /\ modules = <<>>
    /\ programLms = {}
    /\ lmInstances = {DefaultLM}
    /\ gwModule = 0
    /\ gwList = <<>>
    /\ gwIndex = 0
    /\ registeredPaths = {}
    /\ resolved = <<>>
    /\ routes = <<>>
    /\ ready = FALSE
    /\ startError = NoStartError
    /\ jobs = {<<"alpha", <<"cron", "alpha">>>>}
    /\ addedJobs = << <<"cron", "alpha">> >>
    /\ schedRunning = TRUE
    /\ gfDeclared = <<>>
    /\ gfResult = NotCalled
    /\ SchedIdle
    /\ ObsInit

SpecSched == InitSched /\ [][SchedNext]_vars

\* A TraceBuilder fed events in any order.
SpecTrace == Init /\ [][TraceNext]_vars

\* A TraceBuilder fed the events of one execution as the sink emits them.
SpecNested == Init /\ [][NestedNext]_vars

\* A StreamingCallback called by an execution, nothing reading its queue.
SpecSink == Init /\ [][SinkNext]_vars

\* An execution task emitting through the sink, its queue streamed by
\* event_stream_generator to a client that may disconnect.
InitStream ==
    /\ ExecInit /\ RouteInit /\ QueueInit /\ WriterInit
    /\ package = <<>>
    /\ StartupInit
    /\ gfDeclared = <<>>
    /\ gfResult = NotCalled
    /\ SchedIdle
    /\ TraceInit
    /\ SinkInit
    /\ StreamCreated
    /\ ToolIdle

SpecStream == InitStream /\ [][StreamNext]_vars

\* Everything but signature extraction and the log reader, idle.
CoreInit ==
    /\ ExecInit /\ RouteInit /\ QueueInit /\ WriterInit
    /\ package = <<>>
    /\ StartupInit
    /\ gfDeclared = <<>>
    /\ gfResult = NotCalled
    /\ SchedIdle
    /\ TraceInit
    /\ SinkInit
    /\ StreamIdle

\* _extract_signature called on a module class.
InitExtract == CoreInit /\ ExtractInit /\ UiIdle /\ DedupInit
SpecExtract == InitExtract /\ [][ExtractNext]_vars

\* get_recent_logs called on a log file.
InitUi == CoreInit /\ ExtractIdle /\ UiInit /\ DedupInit
SpecUi == InitUi /\ [][UiNext]_vars

\* Webhooks delivered to the code-review gateway, deduplication enabled.
SpecDedup == Init /\ [][DedupNext]_vars

\* GatewayScheduler(logs_dir) and calls of register_cron_gateway.
SpecRegister == Init /\ [][RegisterNext]_vars

Next == ExecNext \/ RouteNext \/ LogNext \/ FinderNext \/ StartupNext \/ SchedNext
            \/ RegisterNext \/ TraceNext \/ NestedNext \/ StreamNext
            \/ ExtractNext \/ UiNext \/ DedupNext

Spec == Init /\ [][Next]_vars

----------------------------------------------------------------------------
(* The claims about run_sync_in_executor (under SpecExec).                 *)

Ran(t) == tpc[t] \in {"returned", "done"}

\* C1: every call dispatched through run_sync_in_executor by a caller that
\* bound its own override reads, in the worker thread, exactly that override:
\* never another caller's, never the process-wide default.
C1_WorkerReadsOwnOverride ==
    \A t \in Tasks : Ran(t) => observed[t] = Override(t)

\* C2: a context mutation made inside a worker-thread call is visible neither
\* to the dispatching caller after the call returns nor to any other call,
\* concurrent or later, a later call on the same pool thread included.
C2_WorkerMutationInvisible ==
    /\ \A t \in Tasks : tpc[t] = "done" => tctx[t] # Inner(t)
    /\ \A t, u \in Tasks : (t # u /\ Ran(u)) => observed[u] # Inner(t)

\* C3: the value the caller set right before run_sync_in_executor is the value
\* read inside the callable, and the await yields the callable's return value,
\* with an initialized pool and on the fallback path.
C3_CallerValueReadAndReturned ==
    \A t \in Tasks : tpc[t] = "done" =>
        /\ observed[t] = tctx[t]
        /\ result[t] = observed[t]

----------------------------------------------------------------------------
(* The claims about the on-demand route (under SpecRoute).                 *)

Invoked(r) == rcalls[r] > 0
\* the entries request r has put on the log queue
EntriesOf(r) == {i \in 1 .. Len(enqueued) : enqueued[i].req = r}

\* C4: every invocation runs on an instance constructed for it alone: no
\* instance serves two invocations.
C4_FreshInstancePerInvocation ==
    \A r1, r2 \in Requests :
        (r1 # r2 /\ Invoked(r1) /\ Invoked(r2)) => rinst[r1] # rinst[r2]

\* C5: the entry point of a synchronous unit never runs on the event-loop
\* thread: while an invocation is inside its entry point the loop is free to
\* start other requests.
C5_EntryPointOffEventLoop ==
    \A r \in Requests : rpc[r] = "forward" =>
        /\ rthread[r] # "loop"
        /\ loopOwner # r

\* C6: every invocation handled by the route enqueues exactly one LogEntry,
\* never zero and never two, whether it succeeded or failed in conversion, in
\* the entry point or in normalization.
C6_ExactlyOneLogEntry ==
    \A r \in Requests :
        /\ Cardinality(EntriesOf(r)) <= 1
        /\ rpc[r] = "done" => Cardinality(EntriesOf(r)) = 1

\* Three requests are done, each having logged: one succeeded, one failed in
\* conversion before `inputs` was bound, one failed in normalization.
C6_Witness ==
    /\ \A r \in Requests : rpc[r] = "done" /\ Cardinality(EntriesOf(r)) = 1
    /\ \E r \in Requests : rstage[r] = "none"
    /\ \E r \in Requests : rstage[r] = "convert" /\ ~rinputs[r]
    /\ \E r \in Requests : rstage[r] = "normalize"

\* C7: a LogEntry has success=false and carries an error exactly when the
\* invocation it records failed, whatever the message of the exception.
C7_FailureMarkedInLog ==
    \A i \in 1 .. Len(enqueued) :
        enqueued[i].req # 0 =>
            /\ (enqueued[i].entry.success = FALSE) <=> (rstage[enqueued[i].req] # "none")
            /\ (enqueued[i].entry.error # NoError) <=> (rstage[enqueued[i].req] # "none")

\* C8: when the entry point raises, the caller gets a 500 response whose
\* detail is the error's message, and the entry point was called exactly once
\* for the request.
C8_RaiseGives500Once ==
    \A r \in Requests :
        (rpc[r] = "done" /\ rstage[r] = "forward") =>
            /\ rresp[r].status = 500
            /\ rresp[r].detail = rerr[r]
            /\ rcalls[r] = 1

\* Two requests are done whose entry points raised, one with the empty
\* message and one with a non-empty message.
C8_Witness ==
    \E r1, r2 \in Requests :
        /\ rpc[r1] = "done" /\ rstage[r1] = "forward" /\ rerr[r1] = ""
        /\ rpc[r2] = "done" /\ rstage[r2] = "forward" /\ rerr[r2] = "boom"
        /\ rresp[r2].detail = "boom"

----------------------------------------------------------------------------
(* The claims about the log writer (under SpecLog).                        *)

RECURSIVE Split(_, _, _)
\* The text of a file cut at its newlines: <<the complete lines, the trailing
\* text after the last newline>>.
Split(content, line, done) ==
    IF content = <<>> THEN <<done, line>>
    ELSE IF Head(content).kind = "nl"
    THEN Split(Tail(content), <<>>, Append(done, line))
    ELSE Split(Tail(content), Append(line, Head(content)), done)

LinesOf(key) == Split(files[key], <<>>, <<>>)[1]
PartialOf(key) == Split(files[key], <<>>, <<>>)[2]

\* the entries enqueued for the file of `key`
EnqueuedFor(key) ==
    {i \in 1 .. Len(enqueued) : <<enqueued[i].dir, enqueued[i].program>> = key}

\* Nothing is pending: no entry is in the queue and no writer holds a batch.
Flushed ==
    /\ EntryIds(logQueue) = {}
    /\ \A th \in DOMAIN wpc : wentries[th] = <<>>

WrittenIds ==
    UNION {{files[key][i].id : i \in {j \in 1 .. Len(files[key]) : files[key][j].kind = "json"}}
           : key \in Keys}

\* C10: when the writer consumes the sentinel, every entry in the queue at
\* that moment is written to its file before the writer thread stops, the
\* sentinel being the first item of a batch or in the middle of one.
C10_SentinelDrainsQueue ==
    \A th \in DOMAIN wpc : wpc[th] = "dead" => atSentinel[th] \subseteq WrittenIds

----------------------------------------------------------------------------
(* The claims about restarting the writer (under SpecLogRestart).          *)

\* C11: whenever the last completed call among start_log_writer and
\* stop_log_writer is a start_log_writer, the thread it started is running:
\* no item left in the queue by an earlier stop ends it, so that entries
\* enqueued afterwards have a writer to write them.
C11_RestartedWriterRuns ==
    (spc = "idle" /\ writerThread # 0) => IsAlive(writerThread)

\* A writer thread that may still take an item from the queue.
Consuming(th) == wpc[th] \in {"get", "batch", "drain"}

\* C12: at every moment at most one writer thread is consuming the queue.
C12_AtMostOneConsumer ==
    Cardinality({th \in DOMAIN wpc : Consuming(th)}) <= 1

----------------------------------------------------------------------------
(* The claim about the log writer of a served application (under           *)
(* SpecServe, whose lifespan is that of server/app.py: it has no step       *)
(* starting or stopping the writer because _make_lifespan calls neither     *)
(* start_log_writer nor stop_log_writer).                                   *)

\* C13: in a served application a writer thread is running whenever an
\* invocation has enqueued a LogEntry, and when the lifespan has ended the
\* queue holds no entry: every entry enqueued is in its unit's file.
C13_ServedEntriesWritten ==
    /\ (phase = "serving" /\ enqueued # <<>>) => \E th \in DOMAIN wpc : IsAlive(th)
    /\ phase = "stopped" =>
          /\ EntryIds(logQueue) = {}
          /\ {enqueued[i].id : i \in DOMAIN enqueued} \subseteq WrittenIds

----------------------------------------------------------------------------
(* The claims about startup (under SpecStartup).                           *)

C15_RouteAtGatewayPath ==
    /\ \A i \in DOMAIN routes : routes[i] = resolved[i].path
    /\ ready =>
          \A m \in DOMAIN modules :
              (/\ Len(modules[m].gateway_classes) = 1
               /\ modules[m].gateway_classes[1].kind = "api"
               /\ modules[m].gateway_classes[1].ctor = "ok"
               /\ modules[m].gateway_classes[1].path \notin {NoPath, <<modules[m].name>>})
              => \A i \in DOMAIN routes : routes[i] # <<modules[m].name>>

\* C17: when discovery has yielded two modules of one name, startup has
\* failed with the error naming the names that occur twice, it has created
\* no LM, registered no route and no job, and the application is not ready.
C17_DuplicateNamesFailStartup ==
    (/\ phase # "created"
     /\ \E i, j \in DOMAIN package : i # j /\ package[i].name = package[j].name)
    =>  /\ phase = "failed"
        /\ startError.kind = "ValueError: Duplicate module names"
        /\ startError.names =
               {package[i].name : i \in {k \in DOMAIN package :
                   \E j \in DOMAIN package : j # k /\ package[j].name = package[k].name}}
        /\ programLms = {}
        /\ lmInstances = {DefaultLM}
        /\ registeredPaths = {}
        /\ routes = <<>>
        /\ jobs = {}
        /\ addedJobs = <<>>
        /\ ~ready

\* Startup has failed on a package holding two modules named "beta".
C17_Witness ==
    /\ phase = "failed"
    /\ startError = DuplicateError({"beta"})
    /\ Len(package) = MaxModules

----------------------------------------------------------------------------
(* The claim about get_gateways_for_module (under SpecFinder).             *)

\* C16: get_gateways_for_module returns, never raises, and what it returns
\* is not empty: a single IdentityGateway when no gateway is declared or no
\* declared gateway could be constructed, else the declared gateways that
\* could be constructed, in declared order.
C16_GatewaysNeverEmptyNeverFails ==
    gfResult # NotCalled =>
        /\ gfResult.raised = "none"
        /\ gfResult.gateways # <<>>
        /\ gfResult.gateways =
               IF SelectSeq(gfDeclared, LAMBDA c : c.ctor = "ok") = <<>>
               THEN <<IdentityGateway>>
               ELSE SelectSeq(gfDeclared, LAMBDA c : c.ctor = "ok")

----------------------------------------------------------------------------
(* The claims about the scheduled job (under SpecSched).                   *)

\* C18: at most one run of the job is executing at any time; a firing of the
\* trigger while a run is executing starts no run and leaves nothing
\* pending, and a run only ever starts at a firing that finds no run
\* executing.
C18_OneRunPerJob ==
    [][ /\ Len(jobRuns') <= 1
        /\ (jobRuns # <<>> /\ cronDue > 0 /\ cronDue' = 0) =>
               (nRuns' = nRuns /\ jobRuns' = jobRuns)
        /\ (nRuns' # nRuns) => (jobRuns = <<>> /\ cronDue > 0 /\ cronDue' = 0) ]_vars

\* A firing was skipped while a run is executing.
C18_Witness ==
    /\ skipped >= 1
    /\ Len(jobRuns) = 1
    /\ cronDue = 0

\* the run times that passed before, during or after the first run
TicksWhen(when) == Cardinality({i \in DOMAIN ticksWhen : ticksWhen[i] = when})

\* Two run times passed while the first run was executing and none after it;
\* the scheduler has processed every run time and no run is executing.
TwoPassedDuringFirst ==
    /\ TicksWhen("during") = 2
    /\ TicksWhen("after") = 0
    /\ cronDue = 0
    /\ jobRuns = <<>>
    /\ nRuns >= 1

C20_EveryItemAttempted ==
    \A k \in 1 .. Len(jobRuns) :
        jobRuns[k].pc = "end" =>
            jobRuns[k].attempted = [i \in 1 .. jobRuns[k].size |-> i]

\* The calls recorded in `calls` for item i of a run.
CallsFor(calls, i) == {c \in DOMAIN calls : calls[c].item = i}

\* C21: when the processing of a batch item failed in a run, the gateway's
\* on-error hook was called exactly once with that item's original input; and
\* every cron gateway has such a hook.
C21_OnErrorCalledOncePerFailure ==
    \A k \in 1 .. Len(jobRuns) :
        LET run == jobRuns[k] IN
        run.pc = "end" =>
            \A i \in 1 .. Len(run.attempted) :
                run.batch[i].fails # "none" =>
                    /\ "on_error" \in CronGatewayHooks
                    /\ Cardinality(CallsFor(run.onError, i)) = 1
                    /\ \A c \in CallsFor(run.onError, i) :
                          run.onError[c].inputs = run.batch[i].raw

\* Item i of the run was passed to the unit and the invocation returned.
InvocationSucceeded(run, i) ==
    /\ CallsFor(run.received, i) # {}
    /\ run.batch[i].fails # "invoke"

\* C22: for every item whose invocation succeeded on_complete was called
\* exactly once, with the item's original dict ("_" keys included) and the
\* output, while the unit received exactly the keys not starting with "_";
\* on_complete is not called for an item whose invocation failed, nor when
\* get_pipeline_inputs failed.
C22_OnCompleteOncePerSuccess ==
    \A k \in 1 .. Len(jobRuns) :
        LET run == jobRuns[k] IN
        /\ \A i \in 1 .. Len(run.batch) :
              InvocationSucceeded(run, i) =>
                  /\ Cardinality(CallsFor(run.onComplete, i)) = 1
                  /\ \A c \in CallsFor(run.onComplete, i) :
                        /\ run.onComplete[c].inputs = run.batch[i].raw
                        /\ run.onComplete[c].output = PipelineOutput(i)
        /\ \A c \in DOMAIN run.received :
              LET raw == run.batch[run.received[c].item].raw IN
              /\ \A key \in run.received[c].inputs : key[1] # "_"
              /\ \A key \in raw : key[1] # "_" => key \in run.received[c].inputs
              /\ run.received[c].inputs \subseteq raw
        /\ \A c \in DOMAIN run.onComplete :
              InvocationSucceeded(run, run.onComplete[c].item)
        /\ ~run.fetched => run.onComplete = <<>>

\* A run ended in which the first item, carrying "_meta", was invoked and
\* handed to on_complete, and the invocation of the second failed.
C22_Witness ==
    \E k \in 1 .. Len(jobRuns) :
        LET run == jobRuns[k] IN
        /\ run.pc = "end"
        /\ run.size = 2
        /\ KeyMeta \in run.batch[1].raw
        /\ run.batch[1].fails = "none"
        /\ run.batch[2].fails = "invoke"
        /\ Len(run.attempted) = 2
        /\ Len(run.onComplete) = 1

\* C23: after any calls of register_cron_gateway, job_count is the number of
\* gateways registered and the scheduler holds one distinct job for each, also
\* when two of them belong to the same unit.
C23_OneJobPerRegisteredGateway ==
    /\ job_count = Len(addedJobs)
    /\ Cardinality({addedJobs[i] : i \in DOMAIN addedJobs}) = Len(addedJobs)

\* C24: add_event and build never raise, whatever events are fed and in
\* whatever order, and whatever span a start event's parent id refers to.
C24_BuilderNeverRaises == tbRaised = "none"

\* The event fed last is an end event whose call id no earlier event had.
UnmatchedEndIsLast ==
    /\ tbEvents # <<>>
    /\ LET e == tbEvents[Len(tbEvents)] IN
       /\ e.type \in EndTypes
       /\ \A i \in 1 .. Len(tbEvents) - 1 :
             "call_id" \in DOMAIN tbEvents[i] => tbEvents[i].call_id # e.call_id

\* The input tokens a span's usage reports.
InputTokensOf(span) ==
    LET u == Get(span, "token_usage", None) IN
    IF u = None THEN 0
    ELSE IF "by_model" \in DOMAIN u[1] THEN u[1].total_input_tokens
    ELSE u[1].input_tokens

RECURSIVE SumInputTokens(_, _)
SumInputTokens(spans, ids) ==
    IF ids = {} THEN 0
    ELSE LET id == CHOOSE x \in ids : TRUE IN
         InputTokensOf(spans[id]) + SumInputTokens(spans, ids \ {id})

\* C25: an end event whose call id has no span leaves a span with that call
\* id that carries the event's end time, duration, outputs, success flag,
\* error and token usage; build() counts the span and its usage is part of
\* the trace's total.
C25_UnmatchedEndKept ==
    UnmatchedEndIsLast =>
        LET e == tbEvents[Len(tbEvents)]
            trace == build IN
        /\ e.call_id \in DOMAIN tbSpans
        /\ LET span == tbSpans[e.call_id] IN
           /\ span.call_id = e.call_id
           /\ span.end_time = e.timestamp
           /\ span.duration_ms = e.duration_ms
           /\ span.outputs = e.outputs
           /\ span.success = e.success
           /\ span.error = e.error
           /\ Get(span, "token_usage", None) = Get(e, "token_usage", None)
        /\ e.call_id \in DOMAIN trace.spans
        /\ trace.span_count =
               Cardinality({tbEvents[i].call_id :
                               i \in {j \in DOMAIN tbEvents :
                                         "call_id" \in DOMAIN tbEvents[j]}})
        /\ Get(e, "token_usage", None) # None =>
               /\ trace.token_usage # None
               /\ trace.token_usage[1].total_input_tokens =
                      SumInputTokens(tbSpans, DOMAIN tbSpans)
               /\ trace.token_usage[1].total_input_tokens >= 1

\* A model call's end arrived without its start, after another span with
\* usage: two spans are counted and the total holds both usages.
C25_Witness ==
    /\ UnmatchedEndIsLast
    /\ tbEvents[Len(tbEvents)].type = "lm_end"
    /\ Get(tbEvents[Len(tbEvents)], "token_usage", None) = Some(LmUsage)
    /\ build.span_count = 2
    /\ build.token_usage # None
    /\ build.token_usage[1].total_input_tokens = 2

\* The call ids of the start events whose parent is p, in start order.
StartedUnder(p) ==
    LET sel == SelectSeq(StartsFed, LAMBDA e : e.parent_call_id = p) IN
    [i \in 1 .. Len(sel) |-> sel[i].call_id]

\* The end events fed for call c.
EndsOf(c) == {i \in DOMAIN tbEvents : tbEvents[i].type \in EndTypes
                                      /\ tbEvents[i].call_id = c}

\* C26: for a properly nested stream the trace's roots are the spans started
\* without parent, each span's children are the spans whose start named it
\* as parent, in start order, and a span whose end event was fed carries
\* that event's end time, duration and outcome.
C26_NestedStreamGivesTree ==
    LET trace == build IN
    /\ trace.root_call_ids = StartedUnder(None)
    /\ DOMAIN trace.spans = 1 .. Len(StartsFed)
    /\ trace.span_count = Len(StartsFed)
    /\ \A c \in 1 .. Len(StartsFed) :
          /\ trace.spans[c].children = StartedUnder(Some(c))
          /\ trace.spans[c].type = SpanType(StartOf(c).type)
          /\ trace.spans[c].start_time = StartOf(c).timestamp
          /\ \A i \in EndsOf(c) :
                /\ trace.spans[c].end_time = tbEvents[i].timestamp
                /\ trace.spans[c].duration_ms = tbEvents[i].duration_ms
                /\ trace.spans[c].success = tbEvents[i].success
                /\ trace.spans[c].error = tbEvents[i].error
                /\ trace.spans[c].outputs = tbEvents[i].outputs
          /\ EndsOf(c) = {} => trace.spans[c].end_time = None

\* A module wrapping one model call, both ended: one root whose single child
\* is the model-call span.
C26_Witness ==
    /\ Len(tbEvents) = 4
    /\ tbOpen = <<>>
    /\ StartOf(1).type = "module_start"
    /\ StartOf(2).type = "lm_start"
    /\ build.root_call_ids = <<1>>
    /\ build.spans[1].children = <<2>>
    /\ build.spans[2].children = <<>>
    /\ build.spans[2].duration_ms = Some(1)
    /\ build.spans[1].duration_ms = Some(3)

\* The model calls whose usage some end event reports: their own, or that
\* of a module they ran inside.
ReportedLmCalls ==
    {c \in 1 .. Len(StartsFed) :
        /\ StartOf(c).type = "lm_start"
        /\ \E i \in DOMAIN tbEvents :
              /\ tbEvents[i].type \in EndTypes
              /\ Get(tbEvents[i], "token_usage", None) # None
              /\ \/ tbEvents[i].call_id = c
                 \/ c \in LmCallsInside(tbEvents[i].call_id)}

\* C27: the usage of the trace is the sum of the usage of its model calls,
\* each counted once, whether reported on its own span, in the aggregate of
\* an enclosing module's span, or in both.
C27_EachModelCallCountedOnce ==
    LET usage == build.token_usage
        n == Cardinality(ReportedLmCalls) IN
    IF n = 0 THEN usage = None
    ELSE /\ usage # None
         /\ usage[1].total_input_tokens = n * LmUsage.input_tokens
         /\ usage[1].total_output_tokens = n * LmUsage.output_tokens
         /\ usage[1].by_model[ModelName].input = n * LmUsage.input_tokens

\* C28: the depth of the sink's call stack never exceeds the configured
\* maximum, whatever callbacks of the five kinds it has received: a start
\* callback arriving at the maximum pushes nothing.
C28_DepthNeverExceedsMax == Len(call_stack) <= max_depth

\* The payload of a data item of the stream, and the data items' types.
IsData(item) == item[1] = "data"
TerminalTypes == {"complete", "error", "cancelled"}
IsTerminal(item) == IsData(item) /\ item[2].type \in TerminalTypes
StreamEnded == genPc \in {"finished", "closed", "raised"}

\* C29: a stream begins with stream_start; a terminal event is the last
\* item; and a stream that has ended ends with a terminal event: "complete"
\* with the result if the task returned, "error" with the message if it
\* raised, "cancelled" if the client disconnected.
C29_StreamEndsWithOneTerminal ==
    /\ sseOut # <<>> => IsData(sseOut[1]) /\ sseOut[1][2].type = "stream_start"
    /\ \A i \in DOMAIN sseOut : IsTerminal(sseOut[i]) => i = Len(sseOut)
    /\ StreamEnded =>
          /\ sseOut # <<>>
          /\ IsTerminal(sseOut[Len(sseOut)])
          /\ LET last == sseOut[Len(sseOut)][2] IN
             /\ last.type = "complete" =>
                   execution_task = "returned" /\ last.result = JsonOut
             /\ last.type = "error" =>
                   execution_task = "raised" /\ last.error = "boom"
             /\ last.type = "cancelled" => clientGone

\* The lifecycle events delivered to the stream, in order.
Delivered ==
    LET items == SelectSeq(sseOut, LAMBDA item :
                    IsData(item) /\ item[2].type \in StartTypes \cup EndTypes) IN
    [i \in 1 .. Len(items) |-> items[i][2]]

\* C30: the events the sink emitted are those delivered to the stream
\* followed by those still queued, each once and in emission order, and
\* none is still queued when "complete" or "error" is yielded.
C30_EveryEventDeliveredOnce ==
    /\ Delivered \o event_queue = collected_events
    /\ \A i \in DOMAIN sseOut :
          IsData(sseOut[i]) /\ sseOut[i][2].type \in {"complete", "error"}
              => event_queue = <<>>

\* The parameters of forward() that are annotated, self apart.
HintedParams(hints) == DOMAIN hints \ {"self", "return"}
\* A fully typed forward(): parameters and return annotated, the return type
\* not the opaque Prediction.
FullyTyped(hints) ==
    /\ HintedParams(hints) # {}
    /\ "return" \in DOMAIN hints
    /\ hints["return"] # "Prediction"

\* C31: for a class whose forward() is fully typed, _extract_signature
\* answers by the type-hint strategy, with the annotated parameters as input
\* fields and the fields of the return type as output fields.
C31_TypeHintsGiveContract ==
    sxResult # NotExtracted /\ FullyTyped(sxClass.hints) =>
        /\ sxResult.strategy = "type_hints"
        /\ sxResult.signature # None
        /\ Range(NamesOf(sxResult.signature[1].input_fields))
               = HintedParams(sxClass.hints)
        /\ NamesOf(sxResult.signature[1].output_fields)
               = NamesOf(ReturnTypeFields(sxClass.hints["return"]))

\* The keywords of every return statement of a body, those inside an if too.
RECURSIVE AllReturnKeywords(_)
AllReturnKeywords(stmts) ==
    IF stmts = <<>> THEN <<>>
    ELSE LET stmt == Head(stmts)
             here == CASE stmt.node = "Return" -> stmt.keywords
                       [] stmt.node = "If" -> AllReturnKeywords(stmt.body)
                       [] OTHER -> <<>> IN
         here \o AllReturnKeywords(Tail(stmts))

\* The attributes of the instance that declare an output field of a name.
Declaring(dict, name) ==
    {attr \in Range(dict) : name \in Range(NamesOf(SignatureOf(attr).output_fields))}

\* forward() begins by calling a predictor the instance holds and returns a
\* Prediction built field by field.
CallsThenReturnsBag(class) ==
    /\ class.body # <<>>
    /\ class.body[1].node = "Assign"
    /\ class.body[1].call \in Range(class.dict)
    /\ AllReturnKeywords(class.body) # <<>>

\* The contract _extract_signature answers with: the metadata when there is
\* some, the fields of the signature otherwise.
ContractOutputs(extracted) ==
    IF extracted.metadata # None THEN extracted.metadata[1].output_fields
    ELSE MetadataOf(extracted.signature[1].output_fields)
ContractInputs(extracted) ==
    IF extracted.metadata # None THEN extracted.metadata[1].input_fields
    ELSE MetadataOf(extracted.signature[1].input_fields)

\* C32: for such a forward() the inputs are those of the predictor called
\* first; the outputs are the fields of every return statement, each with
\* the type and description of a predictor of the instance that declares
\* it, the generic string only when none declares it; and the outputs of
\* the first predictor, in full, when the returned names are its own.
C32_ControlFlowContract ==
    sxResult # NotExtracted /\ FullyTyped(sxClass.hints) = FALSE
        /\ CallsThenReturnsBag(sxClass) =>
        LET first == SignatureOf(sxClass.body[1].call)
            returned == Range(AllReturnKeywords(sxClass.body))
            outputs == ContractOutputs(sxResult) IN
        /\ sxResult.strategy = "forward"
        /\ ContractInputs(sxResult) = MetadataOf(first.input_fields)
        /\ Range(NamesOf(outputs)) = returned
        /\ returned = Range(NamesOf(first.output_fields))
              => outputs = MetadataOf(first.output_fields)
        /\ returned # Range(NamesOf(first.output_fields)) =>
              \A i \in DOMAIN outputs :
                 IF Declaring(sxClass.dict, outputs[i].name) = {}
                 THEN outputs[i].type = "str" /\ outputs[i].description = ""
                 ELSE \E attr \in Declaring(sxClass.dict, outputs[i].name) :
                        \E f \in Range(SignatureOf(attr).output_fields) :
                           outputs[i] = FieldMetadata(f)

\* What the claim makes of the last lines of a file: the last `limit` lines,
\* none when the limit is 0.
LastLines(lines, limit) ==
    IF Len(lines) > limit
    THEN SubSeq(lines, Len(lines) - limit + 1, Len(lines))
    ELSE lines

\* C33: get_recent_logs returns, most recent first, the entries of the
\* parseable lines among the last `limit` lines of the file, never more
\* than `limit` of them.
C33_RecentLogsWithinLimit ==
    uiLogs # NotRead /\ uiFile # None =>
        /\ uiLogs[1] = Reverse(ParseLines(LastLines(uiFile[1], uiLimit)))
        /\ Len(uiLogs[1]) <= uiLimit

\* The gateways of the m-th module, and their places by kind.
GatewaysOf(m) == get_gateways_for_module(modules[m].gateway_classes).gateways
GatewayPlaces(cron) ==
    {pl \in (DOMAIN modules) \X (1 .. MaxDeclared) :
        /\ pl[2] \in DOMAIN GatewaysOf(pl[1])
        /\ is_cron_gateway(GatewaysOf(pl[1])[pl[2]]) = cron}

EmitsStart ==
    /\ Len(collected_events') = Len(collected_events) + 1
    /\ collected_events'[Len(collected_events')].type \in StartTypes
EmittedEvent == collected_events'[Len(collected_events')]
\* The call of the internal "finish" tool: a tool call whose start the sink
\* skipped. The finish tool makes no calls of its own.
IsFinishCall(c) ==
    /\ sinkCalls[c] = "tool_start"
    /\ \A i \in DOMAIN collected_events :
          ~(collected_events[i].call_id = c /\ collected_events[i].type = "tool_start")
\* The innermost of the calls that have started and not ended.
Innermost(open) == IF open = <<>> THEN None ELSE Some(open[Len(open)])
\* The open calls whose start event the sink emitted.
EmittedOpen ==
    SelectSeq(sinkOpen, LAMBDA c :
        \E i \in DOMAIN collected_events :
            collected_events[i].call_id = c /\ collected_events[i].type \in StartTypes)

\* Over the calls the sink recorded, in whatever order they end: a start
\* event carries as parent the top of the call stack before the push and as
\* depth the size of the stack before the push, and that parent is the
\* innermost open call whose start event was emitted.
ParentIsTopOfStack ==
    [][EmitsStart =>
          /\ EmittedEvent.parent_call_id = ParentId
          /\ EmittedEvent.depth = Len(call_stack)
          /\ EmittedEvent.parent_call_id = Innermost(EmittedOpen)]_vars

\* C35: a start event carries as parent the top of the call stack before
\* the push and as depth its size, and while the callbacks arrive properly
\* nested that parent is the innermost call that has started and not ended.
C35_ParentIsInnermostOpenCall ==
    [][EmitsStart =>
          /\ EmittedEvent.parent_call_id = ParentId
          /\ EmittedEvent.depth = Len(call_stack)
          /\ (sinkNested /\ \A c \in {sinkOpen[i] : i \in DOMAIN sinkOpen} : ~IsFinishCall(c))
                => EmittedEvent.parent_call_id = Innermost(sinkOpen)]_vars

\* C36: a call of the internal "finish" tool contributes no event, so every
\* tool_end the sink emitted is preceded by a tool_start with its call id.
C36_FinishToolEmitsNothing ==
    /\ \A c \in DOMAIN sinkCalls :
          IsFinishCall(c) => \A i \in DOMAIN collected_events :
                                 collected_events[i].call_id # c
    /\ \A i \in DOMAIN collected_events :
          collected_events[i].type = "tool_end" =>
              \E j \in 1 .. i - 1 :
                  /\ collected_events[j].type = "tool_start"
                  /\ collected_events[j].call_id = collected_events[i].call_id

\* The start events fed for call c.
StartsOfCall(c) == {i \in DOMAIN tbEvents : /\ tbEvents[i].type \in StartTypes
                                            /\ tbEvents[i].call_id = c}
\* The calls that have a start event.
StartedCalls == {c \in LooseCallIds : StartsOfCall(c) # {}}
\* Whether the parents named by the start events lead from call c to a call
\* without parent in at most n steps.
RECURSIVE LeadsToRoot(_, _)
LeadsToRoot(c, n) ==
    /\ c \in StartedCalls
    /\ LET p == tbEvents[CHOOSE i \in StartsOfCall(c) : TRUE].parent_call_id IN
       \/ p = None
       \/ n > 0 /\ LeadsToRoot(p[1], n - 1)
\* The events of a set of calls that form a forest, each call started once
\* and none ended before it started, in any order.
OneStartPerCall ==
    /\ \A c \in LooseCallIds : Cardinality(StartsOfCall(c)) <= 1
    /\ \A c \in StartedCalls : LeadsToRoot(c, Cardinality(LooseCallIds))
    /\ \A i \in DOMAIN tbEvents :
          tbEvents[i].type \in EndTypes =>
              \E j \in 1 .. i - 1 : j \in StartsOfCall(tbEvents[i].call_id)
\* How many times call c is listed in seq.
Occurrences(seq, c) == Cardinality({i \in DOMAIN seq : seq[i] = c})
\* How many times call c is listed among the children of the spans.
TimesChild(c) ==
    LET holders == {s \in DOMAIN tbSpans : "children" \in DOMAIN tbSpans[s]} IN
    Cardinality({<<s, i>> \in holders \X (1 .. MaxLoose) :
                    /\ i \in DOMAIN tbSpans[s].children
                    /\ tbSpans[s].children[i] = c})

\* C37: when each call id has at most one start event, every span is
\* attached exactly once, whatever the order of the start events: in
\* root_call_ids iff its start had no parent, otherwise once in the children
\* of its parent's span.
C37_EverySpanAttachedOnce ==
    OneStartPerCall =>
        \A c \in StartedCalls :
            LET parent == tbSpans[c].parent_call_id IN
            IF parent = None
            THEN Occurrences(tbRoots, c) = 1 /\ TimesChild(c) = 0
            ELSE /\ Occurrences(tbRoots, c) = 0
                 /\ TimesChild(c) = 1
                 /\ Occurrences(tbSpans[parent[1]].children, c) = 1

\* The entries written to the file of a unit, in file order.
WrittenTo(key) ==
    LET written == SelectSeq(files[key], LAMBDA piece : piece.kind = "json") IN
    [i \in DOMAIN written |-> written[i].id]

\* C38: the entries of one destination and unit are in the unit's file in
\* the order they were enqueued, across batches and the shutdown drain.
C38_FileKeepsEnqueueOrder ==
    \A key \in Keys :
        \A i, j \in DOMAIN WrittenTo(key) :
            i < j => WrittenTo(key)[i] < WrittenTo(key)[j]

\* The pools init_executor created that accept new work.
OpenPools == {p \in 1 .. nPools : p \notin poolsShut}

\* C39: in every step of init_executor, shutdown_executor and
\* run_sync_in_executor, a callable is submitted only to a pool that is not
\* shut down, at most one pool accepts new work, the module's pool is the one
\* that does, and shutdown_executor leaves the module without a pool, so that
\* the calls after it go to the loop's default executor.
C39_NoSubmitToShutPool ==
    [][/\ \A t \in Tasks :
             (tpc[t] = "bound" /\ tpc'[t] = "queued") =>
                 /\ tpool'[t] \notin poolsShut
                 /\ tpool'[t] = IF executor = 0 THEN 0 ELSE executor
       /\ Cardinality(OpenPools') <= 1
       /\ OpenPools' = IF executor' = 0 THEN {} ELSE {executor'}
       /\ (executor # 0 /\ executor \in poolsShut' /\ nPools' = nPools) =>
             executor' = 0 /\ TargetPool' = 0]_vars

\* After a pool was replaced and the second shut down, the module holds no
\* pool; one call ran on a pool and one on the loop's default executor.
C39_Witness ==
    /\ executor = 0
    /\ poolsShut = 1 .. MaxPools
    /\ \E t, u \in Tasks :
          /\ tpc[t] = "done" /\ tpool[t] \in poolsShut
          /\ tpc[u] = "done" /\ tpool[u] = 0

\* The reviews accepted for a pull request and not yet ended.
ReviewsInProgress(key) ==
    {w \in Webhooks : whKey[w] = key /\ whPc[w] \in {"scheduled", "running"}}

\* C40: with deduplication enabled, at most one review per pull request is
\* in progress at any time: from the handler's acquiring the lock to the
\* release in its background task no other webhook of that pull request is
\* accepted, whatever the order of webhooks, expiries and releases.
C40_OneReviewPerKey ==
    \A key \in PrKeys : Cardinality(ReviewsInProgress(key)) <= 1

============================================================================
